---- MODULE Spec2Model ----
(***************************************************************************)
(* Verification model of the ledger-glow-cloud accounting application:     *)
(* invoice save / delete (src/pages/Invoices.tsx), role management         *)
(* (handleRoleChange), and the row-level-security policies of the          *)
(* migrations, over a store that keeps money in DECIMAL(15,2) columns.     *)
(***************************************************************************)
EXTENDS Integers, Sequences, FiniteSets, Bags, TLC

(***************************************************************************)
(* JavaScript Number arithmetic.  A Number is an IEEE-754 binary64 value;  *)
(* TLC integers are 32 bits wide, so the 53-bit significand is held as a   *)
(* little-endian sequence of limbs in base LimbBase (a natural number      *)
(* "Big"), and every operation rounds to nearest, ties to even, as the     *)
(* hardware does.  A Number is [neg, m, e] with value (-1)^neg * m * 2^e,  *)
(* m having exactly MantBits bits, or m = << >> for zero.                  *)
(***************************************************************************)
LimbBits == 14
LimbBase == 16384
MantBits == 53

RECURSIVE Pow2(_)
Pow2(n) == IF n = 0 THEN 1 ELSE 2 * Pow2(n - 1)

RECURSIVE BigNorm(_)
BigNorm(a) ==
  IF a = << >> THEN << >>
  ELSE IF a[Len(a)] = 0 THEN BigNorm(SubSeq(a, 1, Len(a) - 1)) ELSE a

RECURSIVE BigFromInt(_)
BigFromInt(n) ==
  IF n = 0 THEN << >> ELSE <<n % LimbBase>> \o BigFromInt(n \div LimbBase)

RECURSIVE BigToInt(_)
BigToInt(a) ==
  IF a = << >> THEN 0 ELSE a[1] + LimbBase * BigToInt(Tail(a))

BigLimb(a, i) == IF i >= 1 /\ i <= Len(a) THEN a[i] ELSE 0

RECURSIVE BigAddC(_, _, _, _)
BigAddC(a, b, i, c) ==
  IF i > Len(a) /\ i > Len(b)
  THEN (IF c = 0 THEN << >> ELSE <<c>>)
  ELSE LET s == BigLimb(a, i) + BigLimb(b, i) + c
       IN  <<s % LimbBase>> \o BigAddC(a, b, i + 1, s \div LimbBase)

BigAdd(a, b) == BigNorm(BigAddC(a, b, 1, 0))

\* a - b for a >= b
RECURSIVE BigSubC(_, _, _, _)
BigSubC(a, b, i, c) ==
  IF i > Len(a) THEN << >>
  ELSE LET d == BigLimb(a, i) - BigLimb(b, i) - c
       IN  IF d < 0 THEN <<d + LimbBase>> \o BigSubC(a, b, i + 1, 1)
           ELSE <<d>> \o BigSubC(a, b, i + 1, 0)

BigSub(a, b) == BigNorm(BigSubC(a, b, 1, 0))

\* -1, 0, 1 as a < b, a = b, a > b (both normalised)
RECURSIVE BigCmpAt(_, _, _)
BigCmpAt(a, b, i) ==
  IF i = 0 THEN 0
  ELSE IF a[i] < b[i] THEN -1
  ELSE IF a[i] > b[i] THEN 1
  ELSE BigCmpAt(a, b, i - 1)

BigCmp(a, b) ==
  IF Len(a) < Len(b) THEN -1
  ELSE IF Len(a) > Len(b) THEN 1
  ELSE BigCmpAt(a, b, Len(a))

\* a * n for a small natural n (n < 2^16)
RECURSIVE BigMulSmallC(_, _, _, _)
BigMulSmallC(a, n, i, c) ==
  IF i > Len(a) THEN BigFromInt(c)
  ELSE LET p == a[i] * n + c
       IN  <<p % LimbBase>> \o BigMulSmallC(a, n, i + 1, p \div LimbBase)

BigMulSmall(a, n) == BigNorm(BigMulSmallC(a, n, 1, 0))

\* column k of the schoolbook product
RECURSIVE BigMulCol(_, _, _, _)
BigMulCol(a, b, k, i) ==
  IF i > Len(a) THEN 0
  ELSE BigLimb(a, i) * BigLimb(b, k + 1 - i) + BigMulCol(a, b, k, i + 1)

RECURSIVE BigMulC(_, _, _, _)
BigMulC(a, b, k, c) ==
  IF k > Len(a) + Len(b) THEN BigFromInt(c)
  ELSE LET p == BigMulCol(a, b, k, 1) + c
       IN  <<p % LimbBase>> \o BigMulC(a, b, k + 1, p \div LimbBase)

BigMul(a, b) == BigNorm(BigMulC(a, b, 1, 0))

\* quotient and remainder of a by a small natural d (d < 2^16)
RECURSIVE BigDivSmallQ(_, _, _, _)
BigDivSmallQ(a, d, i, r) ==
  IF i = 0 THEN << >>
  ELSE BigDivSmallQ(a, d, i - 1, (r * LimbBase + a[i]) % d)
         \o <<(r * LimbBase + a[i]) \div d>>

RECURSIVE BigModSmall(_, _, _, _)
BigModSmall(a, d, i, r) ==
  IF i = 0 THEN r ELSE BigModSmall(a, d, i - 1, (r * LimbBase + a[i]) % d)

BigDivSmall(a, d) == BigNorm(BigDivSmallQ(a, d, Len(a), 0))

RECURSIVE IntBitLen(_)
IntBitLen(n) == IF n = 0 THEN 0 ELSE 1 + IntBitLen(n \div 2)

BigBitLen(a) ==
  IF a = << >> THEN 0 ELSE (Len(a) - 1) * LimbBits + IntBitLen(a[Len(a)])

BigShl(a, n) ==
  IF a = << >> THEN << >>
  ELSE [i \in 1..(n \div LimbBits) |-> 0] \o BigMulSmall(a, Pow2(n % LimbBits))

BigShr(a, n) ==
  IF n \div LimbBits >= Len(a) THEN << >>
  ELSE BigDivSmall(SubSeq(a, (n \div LimbBits) + 1, Len(a)), Pow2(n % LimbBits))

BigOdd(a) == a # << >> /\ a[1] % 2 = 1

\* some bit of a below position n is set
BigLowBits(a, n) ==
  \/ \E i \in 1..(n \div LimbBits) : BigLimb(a, i) # 0
  \/ BigLimb(a, (n \div LimbBits) + 1) % Pow2(n % LimbBits) # 0

FZero == [neg |-> FALSE, m |-> << >>, e |-> 0]

\* a significand of MantBits bits, or of one more after a carry: renormalise
FPack(neg, q, E) ==
  IF BigBitLen(q) > MantBits
  THEN [neg |-> neg, m |-> BigDivSmall(q, 2), e |-> E + 1]
  ELSE [neg |-> neg, m |-> q, e |-> E]

\* nearest, ties to even: half is the first dropped bit, sticky the rest
FRoundHalf(neg, q, E, half, sticky) ==
  FPack(neg, IF half /\ (sticky \/ BigOdd(q)) THEN BigAdd(q, <<1>>) ELSE q, E)

\* q1 carries the MantBits kept bits and the first dropped bit
FRoundBits(neg, q1, E, sticky) ==
  FRoundHalf(neg, BigDivSmall(q1, 2), E, BigOdd(q1), sticky)

\* round the exact value M * 2^E (plus a non-zero tail below it when sticky)
\* to MantBits bits, nearest, ties to even
FRound(neg, M, E, sticky) ==
  IF M = << >> THEN FZero
  ELSE IF BigBitLen(M) <= MantBits
  THEN [neg |-> neg, m |-> BigShl(M, MantBits - BigBitLen(M)),
        e |-> E - (MantBits - BigBitLen(M))]
  ELSE FRoundBits(neg, BigShr(M, BigBitLen(M) - MantBits - 1),
                  E + (BigBitLen(M) - MantBits),
                  sticky \/ BigLowBits(M, BigBitLen(M) - MantBits - 1))

FFromInt(n) == FRound(n < 0, BigFromInt(IF n < 0 THEN -n ELSE n), 0, FALSE)

FMul(x, y) ==
  IF x.m = << >> \/ y.m = << >> THEN FZero
  ELSE FRound(x.neg # y.neg, BigMul(x.m, y.m), x.e + y.e, FALSE)

FNeg(x) == IF x.m = << >> THEN x ELSE [x EXCEPT !.neg = ~x.neg]

\* xm, ym: the two significands brought to the common exponent e
FAddAligned(xneg, xm, yneg, ym, e) ==
  FRound(IF xneg = yneg \/ BigCmp(xm, ym) >= 0 THEN xneg ELSE yneg,
         IF xneg = yneg THEN BigAdd(xm, ym)
         ELSE IF BigCmp(xm, ym) >= 0 THEN BigSub(xm, ym) ELSE BigSub(ym, xm),
         e, FALSE)

FAdd(x, y) ==
  IF x.m = << >> THEN y
  ELSE IF y.m = << >> THEN x
  ELSE FAddAligned(x.neg, BigShl(x.m, IF x.e > y.e THEN x.e - y.e ELSE 0),
                   y.neg, BigShl(y.m, IF y.e > x.e THEN y.e - x.e ELSE 0),
                   IF x.e < y.e THEN x.e ELSE y.e)

FSub(x, y) == FAdd(x, FNeg(y))

\* x / d for a small positive integer d, correctly rounded
FDivShifted(neg, M, E, d) ==
  FRound(neg, BigDivSmall(M, d), E, BigModSmall(M, d, Len(M), 0) # 0)

FDivSmall(x, d) ==
  IF x.m = << >> THEN FZero
  ELSE FDivShifted(x.neg, BigShl(x.m, 4 * LimbBits), x.e - 4 * LimbBits, d)

FIsNeg(x) == x.neg /\ x.m # << >>

(***************************************************************************)
(* Form values.  A numeric form field holds what z.coerce.number() made   *)
(* of the typed text: here a decimal with three fraction digits, written   *)
(* as the integer n for n/1000 (2000 is "2", 50 is "0.05"), or Undefined   *)
(* (no number is negative after validation) for an optional field left out.*)
(***************************************************************************)
Undefined == -1

\* Number("n/1000"): the binary64 value nearest to the decimal
Number(n) == FDivSmall(FFromInt(n), 1000)

\* Number(v || 0): undefined and 0 both give 0
NumberOrZero(v) == IF v = Undefined \/ v = 0 THEN FZero ELSE Number(v)

\* LineCalc with the tax taken on the undiscounted base
LineCalc_TaxOnBase(it) ==
  LET qty       == NumberOrZero(it.quantity)
      price     == NumberOrZero(it.unit_price)
      discP     == FDivSmall(NumberOrZero(it.discount_percentage), 100)
      taxP      == FDivSmall(NumberOrZero(it.tax_percentage), 100)
      base      == FMul(qty, price)
      disc      == FMul(base, discP)
      afterDisc == FSub(base, disc)
      tax       == FMul(base, taxP)
      lineTotal == FAdd(afterDisc, tax)
  IN  [qty |-> qty, price |-> price, base |-> base, disc |-> disc,
       afterDisc |-> afterDisc, tax |-> tax, lineTotal |-> lineTotal,
       discount_percentage |-> NumberOrZero(it.discount_percentage),
       tax_percentage |-> NumberOrZero(it.tax_percentage)]

\* LineCalc with the line total built on the base instead of afterDisc
LineCalc_TotalIgnoresDiscount(it) ==
  LET qty       == NumberOrZero(it.quantity)
      price     == NumberOrZero(it.unit_price)
      discP     == FDivSmall(NumberOrZero(it.discount_percentage), 100)
      taxP      == FDivSmall(NumberOrZero(it.tax_percentage), 100)
      base      == FMul(qty, price)
      disc      == FMul(base, discP)
      afterDisc == FSub(base, disc)
      tax       == FMul(afterDisc, taxP)
      lineTotal == FAdd(base, tax)
  IN  [qty |-> qty, price |-> price, base |-> base, disc |-> disc,
       afterDisc |-> afterDisc, tax |-> tax, lineTotal |-> lineTotal,
       discount_percentage |-> NumberOrZero(it.discount_percentage),
       tax_percentage |-> NumberOrZero(it.tax_percentage)]

\* LineCalc with the percentages taken as fractions without the division
LineCalc_PercentNotScaled(it) ==
  LET qty       == NumberOrZero(it.quantity)
      price     == NumberOrZero(it.unit_price)
      discP     == NumberOrZero(it.discount_percentage)
      taxP      == NumberOrZero(it.tax_percentage)
      base      == FMul(qty, price)
      disc      == FMul(base, discP)
      afterDisc == FSub(base, disc)
      tax       == FMul(afterDisc, taxP)
      lineTotal == FAdd(afterDisc, tax)
  IN  [qty |-> qty, price |-> price, base |-> base, disc |-> disc,
       afterDisc |-> afterDisc, tax |-> tax, lineTotal |-> lineTotal,
       discount_percentage |-> NumberOrZero(it.discount_percentage),
       tax_percentage |-> NumberOrZero(it.tax_percentage)]

\* Invoices.tsx forEach body / toInsert body: the figures of one line item
LineCalc(it) ==
  LET qty       == NumberOrZero(it.quantity)
      price     == NumberOrZero(it.unit_price)
      discP     == FDivSmall(NumberOrZero(it.discount_percentage), 100)
      taxP      == FDivSmall(NumberOrZero(it.tax_percentage), 100)
      base      == FMul(qty, price)
      disc      == FMul(base, discP)
      afterDisc == FSub(base, disc)
      tax       == FMul(afterDisc, taxP)
      lineTotal == FAdd(afterDisc, tax)
  IN  [qty |-> qty, price |-> price, base |-> base, disc |-> disc,
       afterDisc |-> afterDisc, tax |-> tax, lineTotal |-> lineTotal,
       discount_percentage |-> NumberOrZero(it.discount_percentage),
       tax_percentage |-> NumberOrZero(it.tax_percentage)]

\* Invoices.tsx 135-138: the four running sums take one item's figures
AddLine(acc, c) ==
  [subtotal        |-> FAdd(acc.subtotal, c.base),
   discount_amount |-> FAdd(acc.discount_amount, c.disc),
   tax_amount      |-> FAdd(acc.tax_amount, c.tax),
   total_amount    |-> FAdd(acc.total_amount, c.lineTotal)]

\* Invoices.tsx 120-139: items.forEach over the items, in order
RECURSIVE ComputeTotalsFrom(_, _, _)
ComputeTotalsFrom(items, i, acc) ==
  IF i > Len(items) THEN acc
  ELSE ComputeTotalsFrom(items, i + 1, AddLine(acc, LineCalc(items[i])))

ComputeTotals(items) ==
  ComputeTotalsFrom(items, 1,
    [subtotal |-> FZero, discount_amount |-> FZero,
     tax_amount |-> FZero, total_amount |-> FZero])

(***************************************************************************)
(* The store keeps money, quantities and percentages in DECIMAL(p,2)       *)
(* columns.  A Number reaches it as JSON text (the shortest decimal that   *)
(* reads back as the same Number) and is rounded to two fraction digits,   *)
(* half away from zero.  The result is the integer count of hundredths.    *)
(***************************************************************************)
\* |x| * 100 for x = m * 2^e: the whole hundredths, and whether the rest
\* reaches one half
DecimalFloor(m, e) ==
  IF e >= 0 THEN BigToInt(BigShl(BigMulSmall(m, 100), e))
  ELSE BigToInt(BigShr(BigMulSmall(m, 100), -e))

DecimalHalf(m, e) ==
  e < 0 /\ BigOdd(BigShr(BigMulSmall(m, 100), (-e) - 1))

\* the text is exactly n.5 hundredths when that decimal reads back as x;
\* otherwise the exact value decides
DecimalRound(x, n, half) ==
  IF half \/ FDivSmall(FFromInt(2 * n + 1), 200) = [x EXCEPT !.neg = FALSE]
  THEN n + 1 ELSE n

ToDecimal2(x) ==
  IF x.m = << >> THEN 0
  ELSE IF x.neg THEN -DecimalRound(x, DecimalFloor(x.m, x.e), DecimalHalf(x.m, x.e))
  ELSE DecimalRound(x, DecimalFloor(x.m, x.e), DecimalHalf(x.m, x.e))

(***************************************************************************)
(* The invoice form: InvoiceFormValues and the payload handleCreateOrUpdate *)
(* builds from it.                                                         *)
(***************************************************************************)
MaxItems == 2

Item(d, q, p, dp, tp) ==
  [description |-> d, quantity |-> q, unit_price |-> p,
   discount_percentage |-> dp, tax_percentage |-> tp]

\* line items a user can type: quantity, price and percentages in 1/1000
SampleItems ==
  { Item("a", 1000, 1000, 0, 0),
    Item("b", 1000, 1000, 0, 7000),
    Item("a", 2000, 50000, 10000, 5000),
    Item("b", 1000, 100, 5000, 0),
    Item("a", 3000, 19990, Undefined, Undefined),
    Item("b", 1000, 0, 100000, 100000),
    Item("a", 2000, 1000, 100000, 5000),
    Item("b", 1500, 333, 12500, 7500),
    Item("a", 1000, 3000, 7000, Undefined),
    Item("b", 7000, 10, 50000, 10000),
    Item("c", 1000, 100, 0, 5000) }

ItemSchema_QuantityNonNegative(it) ==
  /\ it.description # ""
  /\ it.quantity # Undefined /\ it.quantity >= 0
  /\ it.unit_price # Undefined /\ it.unit_price >= 0
  /\ (it.discount_percentage = Undefined
      \/ (it.discount_percentage >= 0 /\ it.discount_percentage <= 100000))
  /\ (it.tax_percentage = Undefined
      \/ (it.tax_percentage >= 0 /\ it.tax_percentage <= 100000))

\* ItemSchema (InvoiceFormDialog.tsx 20-26)
ItemSchema(it) ==
  /\ it.description # ""
  /\ it.quantity # Undefined /\ it.quantity >= 1000
  /\ it.unit_price # Undefined /\ it.unit_price >= 0
  /\ (it.discount_percentage = Undefined
      \/ (it.discount_percentage >= 0 /\ it.discount_percentage <= 100000))
  /\ (it.tax_percentage = Undefined
      \/ (it.tax_percentage >= 0 /\ it.tax_percentage <= 100000))

SeqsUpTo(S, n) == UNION { [1..k -> S] : k \in 0..n }

\* FormSchema.line_items: z.array(ItemSchema).min(1)
LineItemsSchema(items) ==
  /\ Len(items) >= 1
  /\ \A i \in 1..Len(items) : ItemSchema(items[i])

ValidItemLists == { l \in SeqsUpTo(SampleItems, MaxItems) : LineItemsSchema(l) }

\* The Number computations are evaluated once for the sample inputs and looked
\* up by the actions: LineCalc and ComputeTotals as tables.
LineCalcTable == [it \in SampleItems |-> LineCalc(it)]
ComputeTotalsTable == [l \in ValidItemLists |-> ComputeTotals(l)]

\* Invoices.tsx 155-159: the money fields of the header, balance_due being
\* total_amount
HeaderTotals(t) ==
  [subtotal        |-> t.subtotal,
   discount_amount |-> t.discount_amount,
   tax_amount      |-> t.tax_amount,
   total_amount    |-> t.total_amount,
   balance_due     |-> t.total_amount]

\* Invoices.tsx 141-160: the header record sent to the store
Header(uid, values) ==
  [user_id        |-> uid,
   invoice_number |-> values.invoice_number,
   customer_id    |-> values.customer_id,
   status         |-> values.status]
  @@ HeaderTotals(ComputeTotalsTable[values.line_items])

\* Invoices.tsx 189-197: the row of one item, c being its figures
ItemRow(invoice_id, it, c) ==
  [invoice_id          |-> invoice_id,
   description         |-> it.description,
   quantity            |-> c.qty,
   unit_price          |-> c.price,
   discount_percentage |-> c.discount_percentage,
   tax_percentage      |-> c.tax_percentage,
   line_total          |-> c.lineTotal]

\* Invoices.tsx 179-198 / 220-239: one row per submitted item
toInsert(invoice_id, items) ==
  [i \in 1..Len(items) |-> ItemRow(invoice_id, items[i], LineCalcTable[items[i]])]

(***************************************************************************)
(* The totals preview of LineItemsEditor.                                  *)
(***************************************************************************)
\* Number(it?.x ?? 0): only undefined gives way to 0
NumberNullish(n) == IF n = Undefined THEN FZero ELSE Number(n)

EditorLine_DiscountLeftOut(it) ==
  LET qty   == NumberNullish(it.quantity)
      price == NumberNullish(it.unit_price)
      taxP  == FDivSmall(NumberNullish(it.tax_percentage), 100)
      base  == FMul(qty, price)
      tax   == FMul(base, taxP)
  IN  [base |-> base, disc |-> FZero, tax |-> tax, lineTotal |-> FAdd(base, tax)]

\* LineItemsEditor.tsx 26-34: the figures of one item in the preview
EditorLine(it) ==
  LET qty       == NumberNullish(it.quantity)
      price     == NumberNullish(it.unit_price)
      discP     == FDivSmall(NumberNullish(it.discount_percentage), 100)
      taxP      == FDivSmall(NumberNullish(it.tax_percentage), 100)
      base      == FMul(qty, price)
      disc      == FMul(base, discP)
      afterDisc == FSub(base, disc)
      tax       == FMul(afterDisc, taxP)
      lineTotal == FAdd(afterDisc, tax)
  IN  [base |-> base, disc |-> disc, tax |-> tax, lineTotal |-> lineTotal]

\* LineItemsEditor.tsx 25-39: list.forEach over the items, in order
RECURSIVE calcFrom(_, _, _)
calcFrom(list, i, acc) ==
  IF i > Len(list) THEN acc
  ELSE LET c == EditorLine(list[i])
       IN  calcFrom(list, i + 1,
                    [subtotal      |-> FAdd(acc.subtotal, c.base),
                     discountTotal |-> FAdd(acc.discountTotal, c.disc),
                     taxTotal      |-> FAdd(acc.taxTotal, c.tax),
                     total         |-> FAdd(acc.total, c.lineTotal)])

\* LineItemsEditor.tsx 18-42: calc
calc(list) ==
  calcFrom(list, 1, [subtotal |-> FZero, discountTotal |-> FZero,
                     taxTotal |-> FZero, total |-> FZero])

(***************************************************************************)
(* The store: tables invoices and invoice_items, their column types,       *)
(* constraints and row-level security policies.  A store call is evaluated *)
(* for the caller uid (auth.uid()); NoUser is a client that is not signed  *)
(* in.                                                                     *)
(***************************************************************************)
NoUser == "none"
Users == {"u1", "u2"}

\* app_role
Roles == {"admin", "accountant", "user"}

RoleRow(u, r) == [user_id |-> u, role |-> r]

\* the tables whose rows carry their owner in user_id
OwnedTables ==
  {"chart_of_accounts", "customers", "vendors", "products", "invoices",
   "expenses", "purchase_orders"}

\* the line-item tables: table -> the header table that owns its rows
ParentOf ==
  [t \in {"invoice_items", "purchase_order_items"} |->
     IF t = "invoice_items" THEN "invoices" ELSE "purchase_orders"]

Tables == OwnedTables \cup DOMAIN ParentOf

MaxInvoices == 2
InvoiceIds == 1..MaxInvoices
NoInvoice == 0

FormValues(n, st, items) ==
  [invoice_number |-> n, customer_id |-> "c1", status |-> st, line_items |-> items]

\* what the editors submit: FormSchema-valid values
SampleValues ==
  { FormValues("INV-1", "draft", <<Item("a", 2000, 50000, 10000, 5000)>>),
    FormValues("INV-2", "sent",  <<Item("a", 2000, 50000, 10000, 5000),
                                   Item("b", 1500, 333, 12500, 7500)>>) }

\* what the one editor of SpecSave submits and the resolver accepts: inputs
\* the form's number fields let through (whole quantities, two decimals)
SaveValues ==
  { FormValues("INV-1", st, l) :
      st \in {"draft", "paid"},
      l \in { <<Item("a", 2000, 50000, 10000, 5000)>>,
              <<Item("a", 2000, 50000, 10000, 5000), Item("b", 1000, 1000, 0, 7000)>>,
              <<Item("b", 1000, 1000, 0, 7000), Item("a", 2000, 50000, 10000, 5000)>>,
              <<Item("c", 1000, 100, 0, 5000), Item("c", 1000, 100, 0, 5000)>> } }

\* values the resolver is handed that break one rule each
RejectedValues ==
  { FormValues("INV-1", "draft", << >>),
    FormValues("INV-1", "draft", <<Item("", 1000, 1000, 0, 0)>>),
    FormValues("INV-1", "draft", <<Item("a", 0, 1000, 0, 0)>>),
    FormValues("INV-1", "draft", <<Item("a", 500, 1000, 0, 0)>>),
    FormValues("INV-1", "draft", <<Item("a", 1000, -1000, 0, 0)>>),
    FormValues("INV-1", "draft", <<Item("a", 1000, 1000, 101000, 0)>>),
    FormValues("INV-1", "draft", <<Item("a", 1000, 1000, 0, -5000)>>),
    FormValues("INV-1", "draft", <<Item("a", 1000, 1000, 0, 0), Item("b", 1000, 1000, -5000, 0)>>),
    FormValues("", "draft", <<Item("a", 1000, 1000, 0, 0)>>),
    [FormValues("INV-1", "draft", <<Item("a", 1000, 1000, 0, 0)>>) EXCEPT !.customer_id = ""],
    FormValues("INV-1", "cancelled", <<Item("a", 1000, 1000, 0, 0)>>) }

FormSchema_AnyLength(v) ==
  /\ v.invoice_number # ""
  /\ v.customer_id # ""
  /\ v.status \in {"draft", "sent", "paid", "overdue"}
  /\ \A i \in 1..Len(v.line_items) : ItemSchema(v.line_items[i])

\* FormSchema (InvoiceFormDialog.tsx 28-37)
FormSchema(v) ==
  /\ v.invoice_number # ""
  /\ v.customer_id # ""
  /\ v.status \in {"draft", "sent", "paid", "overdue"}
  /\ LineItemsSchema(v.line_items)

\* DECIMAL(15,2) columns of invoices the header carries
MoneyColumns ==
  {"subtotal", "discount_amount", "tax_amount", "total_amount", "balance_due"}

\* DECIMAL columns of invoice_items
ItemDecimalColumns ==
  {"quantity", "unit_price", "discount_percentage", "tax_percentage", "line_total"}

\* a record as the table stores it: DECIMAL columns in hundredths
StoredColumns(r, decimals) ==
  [f \in DOMAIN r |-> IF f \in decimals THEN ToDecimal2(r[f]) ELSE r[f]]

\* the header of each submitted form as the invoices table stores it
HeaderSent ==
  [u \in Users, v \in SampleValues \cup SaveValues |->
     StoredColumns(Header(u, v), MoneyColumns)]

\* the item rows of each submitted form as invoice_items stores them
ItemsSent ==
  [i \in InvoiceIds, v \in SampleValues \cup SaveValues |->
     [k \in 1..Len(v.line_items) |->
        StoredColumns(toInsert(i, v.line_items)[k], ItemDecimalColumns)]]

EmptyTable == [i \in {} |-> i]

\* rows as a bag: invoice_items rows differ only in their generated id
BagOfRows(rows) ==
  [r \in {rows[k] : k \in DOMAIN rows} |->
     Cardinality({k \in DOMAIN rows : rows[k] = r})]

ItemsOf(items, id) ==
  [r \in {x \in DOMAIN items : x.invoice_id = id} |-> items[r]]

\* policy "Users can manage their own invoices":
\* FOR ALL USING (auth.uid() = user_id) WITH CHECK (auth.uid() = user_id)
InvoicePolicy(uid, row) == uid # NoUser /\ uid = row.user_id

\* policy "Users can manage invoice items for their invoices":
\* USING (EXISTS (SELECT 1 FROM invoices WHERE id = invoice_id AND user_id = auth.uid()))
InvoiceItemPolicy(inv, uid, invoice_id) ==
  /\ uid # NoUser
  /\ invoice_id \in DOMAIN inv
  /\ inv[invoice_id].user_id = uid

\* UNIQUE(user_id, invoice_number), id being the row written
InvoiceNumberTaken(inv, id, row) ==
  \E j \in DOMAIN inv \ {id} :
    inv[j].user_id = row.user_id /\ inv[j].invoice_number = row.invoice_number

\* a nullable column holds NULL or one value
Null == {}

Some(x) == {x}

\* the defaults of the invoices columns an insert of the page leaves out:
\* paid_amount DEFAULT 0, is_recurring DEFAULT false, the other recurrence
\* columns and parent_invoice_id NULL
InvoiceDefaults ==
  [paid_amount           |-> 0,
   is_recurring          |-> FALSE,
   recurrence_frequency  |-> Null,
   recurrence_start_date |-> Null,
   recurrence_end_date   |-> Null,
   next_recurrence_date  |-> Null,
   parent_invoice_id     |-> Null]

\* from('invoices').select('*').eq('user_id', uid): the ids returned
SelectInvoices(inv, uid) ==
  { j \in DOMAIN inv : InvoicePolicy(uid, inv[j]) /\ inv[j].user_id = uid }

\* from('invoices').update(cols).eq('id', id).eq('user_id', cols.user_id):
\* the rows the statement touches
UpdateTargets(inv, uid, id, cols) ==
  { j \in DOMAIN inv :
      j = id /\ inv[j].user_id = cols.user_id /\ InvoicePolicy(uid, inv[j]) }

UpdateInvoiceError(inv, uid, id, cols) ==
  /\ UpdateTargets(inv, uid, id, cols) # {}
  /\ (~InvoicePolicy(uid, cols) \/ InvoiceNumberTaken(inv, id, cols))

UpdateInvoice_ReplacesRow(inv, uid, id, cols) ==
  [j \in DOMAIN inv |->
     IF j \in UpdateTargets(inv, uid, id, cols)
     THEN [f \in DOMAIN inv[j] |->
             IF f \in DOMAIN cols THEN cols[f] ELSE InvoiceDefaults[f]]
     ELSE inv[j]]

UpdateInvoice(inv, uid, id, cols) ==
  [j \in DOMAIN inv |->
     IF j \in UpdateTargets(inv, uid, id, cols)
     THEN [f \in DOMAIN inv[j] |-> IF f \in DOMAIN cols THEN cols[f] ELSE inv[j][f]]
     ELSE inv[j]]

\* from('invoices').insert([cols]): the columns left out take their defaults
InsertInvoiceError(inv, uid, cols) ==
  ~InvoicePolicy(uid, cols) \/ InvoiceNumberTaken(inv, NoInvoice, cols)

InsertInvoice(inv, id, cols) ==
  [j \in DOMAIN inv \cup {id} |->
     IF j = id THEN cols @@ InvoiceDefaults ELSE inv[j]]

\* from('invoices').delete().eq('id', id): rows outside the policy are skipped
DeleteTargets(inv, uid, id) ==
  { j \in DOMAIN inv : j = id /\ InvoicePolicy(uid, inv[j]) }

DeleteInvoice(inv, uid, id) ==
  [j \in DOMAIN inv \ DeleteTargets(inv, uid, id) |-> inv[j]]

\* invoice_items.invoice_id REFERENCES invoices(id) ON DELETE CASCADE
CascadeItems(items, inv) ==
  [r \in {x \in DOMAIN items : x.invoice_id \in DOMAIN inv} |-> items[r]]

\* from('invoice_items').delete().eq('invoice_id', id)
DeleteItemsOf(items, inv, uid, id) ==
  [r \in {x \in DOMAIN items :
            ~(x.invoice_id = id /\ InvoiceItemPolicy(inv, uid, id))} |-> items[r]]

\* from('invoice_items').insert(rows): every row must pass the policy
InsertItemsError(inv, uid, rows) ==
  \E k \in DOMAIN rows : ~InvoiceItemPolicy(inv, uid, rows[k].invoice_id)

InsertItemRows(items, rows) == items (+) BagOfRows(rows)

\* the columns of a fetched invoices row that the page reads (startEdit 86-90)
ListedRow(row) ==
  [invoice_number |-> row.invoice_number, customer_id |-> row.customer_id,
   status |-> row.status]

\* from('invoice_items').select(...).eq('invoice_id', id): the rows returned
SelectItems(items, inv, uid, id) ==
  IF InvoiceItemPolicy(inv, uid, id) THEN ItemsOf(items, id) ELSE EmptyBag

\* the orders in which a select without ORDER BY can return the rows
RowOrders(b) ==
  { q \in [1..BagCardinality(b) -> BagToSet(b)] : BagOfRows(q) = b }

\* startEdit 91-97: a stored item as a form item; a DECIMAL(p,2) column holds
\* hundredths, read back as the Number of its text
RestoreItem(row) ==
  Item(row.description,
       IF row.quantity = 0 THEN 1000 ELSE 10 * row.quantity,
       10 * row.unit_price,
       10 * row.discount_percentage,
       10 * row.tax_percentage)

\* startEdit 85-98: the form values made of the listed row and the items read
InitialData(listed, items) ==
  [invoice_number |-> listed.invoice_number,
   customer_id    |-> listed.customer_id,
   status         |-> IF listed.status = "" THEN "draft" ELSE listed.status,
   line_items     |-> [k \in 1..Len(items) |-> RestoreItem(items[k])]]

(***************************************************************************)
(* State                                                                   *)
(***************************************************************************)
VARIABLES
  line_items,    \* calculator run: the validated line_items handed to the save
  payload,       \* calculator run: the header and item rows built from them
  invoices,      \* table invoices: id -> row
  invoice_items, \* table invoice_items: bag of rows
  issued,        \* number of invoice ids gen_random_uuid() has handed out
  user,          \* per client: useAuth().user (its id, or NoUser)
  pageInvoices,  \* per client: the page's invoices state (id -> the row as fetched)
  loading,       \* per client: the page's loading state (a fetch is in flight)
  dialogOpen,    \* per client: the page's dialogOpen state
  editing,       \* per client: the page's editing state (id of the invoice)
  editingValues, \* per client: the page's editingValues state (the form's initialData)
  run,           \* per client: position and locals of handleCreateOrUpdate
  toast,         \* per client: title of the notification of the latest handler
  accounts,      \* auth.users: the ids of the accounts
  user_roles,    \* table user_roles: set of rows
  isAdmin,       \* per client: useUserRoles().isAdmin
  users,         \* per client: the user management page's users state (their ids)
  roleRun,       \* per client: position and locals of handleRoleChange
  reply,         \* outcome of the latest statement a client issued on user_roles
  rows,          \* the owned tables, one row slot each: table -> row
  purchase_orders,      \* table purchase_orders: id -> row
  purchase_order_items, \* table purchase_order_items: bag of rows
  orderIssued,   \* number of purchase order ids gen_random_uuid() has handed out
  orderPage,     \* the PurchaseOrders page of client s1: its state and the
                 \* position and locals of its handleCreateOrUpdate
  hook,          \* the useUserRoles instance of client s1: its state and the
                 \* fetches it has started that have not resolved
  pendingEdit    \* client s1: the startEdit calls awaiting their select

calcVars == <<line_items, payload>>
storeVars == <<invoices, invoice_items, issued>>
pageVars == <<user, pageInvoices, loading, dialogOpen, editing, editingValues, run, toast>>
roleVars == <<accounts, user_roles, isAdmin, users, roleRun, reply>>
rowVars == <<rows>>
poVars == <<purchase_orders, purchase_order_items, orderIssued, orderPage>>
asyncVars == <<hook, pendingEdit>>
vars == <<calcVars, storeVars, pageVars, roleVars, rowVars, poVars, asyncVars>>

Sessions == {"s1", "s2"}

Idle == [pc |-> "idle"]

NoReply == [by |-> "", op |-> "none", error |-> FALSE]

NoRow == [stored |-> FALSE]

NoPayload == [built |-> FALSE]

\* editingValues undefined
NoValues == [restored |-> FALSE]

CalcIdle == line_items = << >> /\ payload = NoPayload

\* an empty store
StoreIdle ==
  /\ invoices = EmptyTable
  /\ invoice_items = EmptyBag
  /\ issued = 0

\* no client has the page open
PageIdle ==
  /\ user = [s \in Sessions |-> NoUser]
  /\ pageInvoices = [s \in Sessions |-> EmptyTable]
  /\ loading = [s \in Sessions |-> FALSE]
  /\ dialogOpen = [s \in Sessions |-> FALSE]
  /\ editing = [s \in Sessions |-> NoInvoice]
  /\ editingValues = [s \in Sessions |-> NoValues]
  /\ run = [s \in Sessions |-> Idle]
  /\ toast = [s \in Sessions |-> ""]

\* every account holds the role its signup gave it and no client has the
\* user management page open
RolesIdle ==
  /\ accounts = Users
  /\ user_roles = {RoleRow(u, "user") : u \in Users}
  /\ isAdmin = [s \in Sessions |-> FALSE]
  /\ users = [s \in Sessions |-> {}]
  /\ roleRun = [s \in Sessions |-> Idle]
  /\ reply = NoReply

\* the owned tables are empty
RowsIdle == rows = [t \in Tables |-> NoRow]

\* the PurchaseOrders page as constructed (29-35), before it is mounted
NoOrderPage ==
  [mounted |-> FALSE, orders |-> EmptyTable, loading |-> FALSE,
   dialogOpen |-> FALSE, editing |-> NoInvoice, editingValues |-> NoValues,
   run |-> Idle, toast |-> ""]

\* no purchase order is stored and the PurchaseOrders page is not open
OrdersIdle ==
  /\ purchase_orders = EmptyTable
  /\ purchase_order_items = EmptyBag
  /\ orderIssued = 0
  /\ orderPage = NoOrderPage

\* useUserRoles as constructed (9-12): no fetch has been started
NoHook ==
  [roles |-> {}, loading |-> TRUE, isAdmin |-> FALSE, isAccountant |-> FALSE,
   fetches |-> EmptyBag]

\* the hook is not mounted and no startEdit awaits its select
AsyncIdle ==
  /\ hook = NoHook
  /\ pendingEdit = {}

(***************************************************************************)
(* SpecCalc: the totals computation of handleCreateOrUpdate on every       *)
(* validated line-item list.                                               *)
(***************************************************************************)
CalcValues(items) ==
  [invoice_number |-> "INV-1", customer_id |-> "c1", status |-> "draft",
   line_items |-> items]

InitCalc ==
  /\ line_items \in ValidItemLists
  /\ payload = NoPayload
  /\ StoreIdle
  /\ PageIdle
  /\ RolesIdle
  /\ RowsIdle
  /\ OrdersIdle
  /\ AsyncIdle

\* the editor shows its preview of the list and handleCreateOrUpdate runs up
\* to the first store call: header and toInsert
BuildPayload ==
  /\ payload = NoPayload
  /\ payload' = [built   |-> TRUE,
                 header  |-> Header("u1", CalcValues(line_items)),
                 rows    |-> toInsert(1, line_items),
                 preview |-> calc(line_items)]
  /\ UNCHANGED <<line_items, storeVars, pageVars, roleVars, rowVars, poVars, asyncVars>>

\* the dialog is reopened with another list
ResetForm ==
  /\ payload # NoPayload
  /\ line_items' \in ValidItemLists
  /\ payload' = NoPayload
  /\ UNCHANGED <<storeVars, pageVars, roleVars, rowVars, poVars, asyncVars>>

NextCalc == BuildPayload \/ ResetForm

SpecCalc == InitCalc /\ [][NextCalc]_vars

(***************************************************************************)
(* The Invoices page.  Each client is one mounted page; a handler runs     *)
(* from one await to the next as one action, its store call included, and  *)
(* a store call may fail (ok = FALSE) without changing the store.          *)
(***************************************************************************)
\* one outstanding operation per client: no save is in flight (the submit
\* button is disabled meanwhile, InvoiceFormDialog.tsx 93, 209) and no fetch
Ready(s) == run[s].pc \in {"idle", "done", "invalid"} /\ ~loading[s]

\* a handler starts: the notification of the previous one is gone
Begin(s) ==
  /\ run' = [run EXCEPT ![s] = Idle]
  /\ toast' = [toast EXCEPT ![s] = ""]

NoAggregate == [stored |-> FALSE]

\* an invoice with its items as stored
Aggregate(inv, items, id) ==
  IF id \in DOMAIN inv
  THEN [stored |-> TRUE, header |-> inv[id], items |-> ItemsOf(items, id)]
  ELSE NoAggregate

\* a store call of a handler and whether it came back with an error
Call(name, error) == [call |-> name, error |-> error]

\* the handler returns after its store call c: title is its notification
Finish(s, id, title, c) ==
  /\ run' = [run EXCEPT ![s] = [pc |-> "done", id |-> id, values |-> run[s].values,
                                title |-> title, calls |-> Append(run[s].calls, c)]]
  /\ toast' = [toast EXCEPT ![s] = title]

\* fetchInvoices (52-66), the response of the select
fetchInvoices(s) ==
  /\ loading[s]
  /\ loading' = [loading EXCEPT ![s] = FALSE]
  /\ \E ok \in BOOLEAN :
       IF ok
       THEN /\ pageInvoices' =
                 [pageInvoices EXCEPT ![s] =
                    [j \in SelectInvoices(invoices, user[s]) |-> ListedRow(invoices[j])]]
            /\ UNCHANGED toast
       ELSE /\ toast' = [toast EXCEPT ![s] = "Failed to load invoices"]
            /\ UNCHANGED pageInvoices
  /\ UNCHANGED <<calcVars, poVars, asyncVars, roleVars, rowVars, storeVars, user, dialogOpen, editing, editingValues, run>>

\* the "Create Invoice" button (272)
OpenCreate(s) ==
  /\ Ready(s)
  /\ ~dialogOpen[s]
  /\ editing' = [editing EXCEPT ![s] = NoInvoice]
  /\ editingValues' = [editingValues EXCEPT ![s] = NoValues]
  /\ dialogOpen' = [dialogOpen EXCEPT ![s] = TRUE]
  /\ Begin(s)
  /\ UNCHANGED <<calcVars, poVars, asyncVars, roleVars, rowVars, storeVars, user, pageInvoices, loading>>

\* startEdit (73-100): the Edit button of a listed row
startEdit(s, id) ==
  /\ Ready(s)
  /\ ~dialogOpen[s]
  /\ id \in DOMAIN pageInvoices[s]
  /\ user[s] # NoUser
  /\ run' = [run EXCEPT ![s] = Idle]
  /\ \E ok \in BOOLEAN :
       IF ok
       THEN /\ editing' = [editing EXCEPT ![s] = id]
            /\ \E items \in RowOrders(SelectItems(invoice_items, invoices, user[s], id)) :
                 editingValues' =
                   [editingValues EXCEPT ![s] = InitialData(pageInvoices[s][id], items)]
            /\ dialogOpen' = [dialogOpen EXCEPT ![s] = TRUE]
            /\ toast' = [toast EXCEPT ![s] = ""]
       ELSE /\ toast' = [toast EXCEPT ![s] = "Failed to load items"]
            /\ UNCHANGED <<editing, editingValues, dialogOpen>>
  /\ UNCHANGED <<calcVars, poVars, asyncVars, roleVars, rowVars, storeVars, user, pageInvoices, loading>>

\* onOpenChange(false) (359): the dialog is closed
onOpenChange(s) ==
  /\ Ready(s)
  /\ dialogOpen[s]
  /\ editing' = [editing EXCEPT ![s] = NoInvoice]
  /\ editingValues' = [editingValues EXCEPT ![s] = NoValues]
  /\ dialogOpen' = [dialogOpen EXCEPT ![s] = FALSE]
  /\ Begin(s)
  /\ UNCHANGED <<calcVars, poVars, asyncVars, roleVars, rowVars, storeVars, user, pageInvoices, loading>>

handleCreateOrUpdate_NoUserCheck(s, v) ==
  /\ Ready(s)
  /\ dialogOpen[s]
  /\ FormSchema(v)
  /\ run' = [run EXCEPT ![s] =
               [pc      |-> IF editing[s] # NoInvoice THEN "update" ELSE "create",
                id      |-> editing[s],
                user_id |-> user[s],
                values  |-> v,
                before  |-> Aggregate(invoices, invoice_items, editing[s]),
                calls   |-> << >>]]
  /\ toast' = [toast EXCEPT ![s] = ""]
  /\ UNCHANGED <<calcVars, poVars, asyncVars, roleVars, rowVars, storeVars, user, pageInvoices, loading, dialogOpen, editing, editingValues>>

\* handleCreateOrUpdate (112-160): the form is submitted with values v; the
\* handler builds the header and issues its first store call
handleCreateOrUpdate(s, v) ==
  /\ Ready(s)
  /\ dialogOpen[s]
  /\ FormSchema(v)
  /\ IF user[s] = NoUser
     THEN /\ toast' = [toast EXCEPT ![s] = "Sign in required"]
          /\ run' = [run EXCEPT ![s] = Idle]
     ELSE /\ run' = [run EXCEPT ![s] =
                       [pc      |-> IF editing[s] # NoInvoice THEN "update" ELSE "create",
                        id      |-> editing[s],
                        user_id |-> user[s],
                        values  |-> v,
                        before  |-> Aggregate(invoices, invoice_items, editing[s]),
                        calls   |-> << >>]]
          /\ toast' = [toast EXCEPT ![s] = ""]
  /\ UNCHANGED <<calcVars, poVars, asyncVars, roleVars, rowVars, storeVars, user, pageInvoices, loading, dialogOpen, editing, editingValues>>

\* form.handleSubmit (InvoiceFormDialog.tsx 104-108): the resolver rejects the
\* values, the form shows the messages and onSubmit is not called
handleSubmit(s, v) ==
  /\ Ready(s)
  /\ dialogOpen[s]
  /\ ~FormSchema(v)
  /\ run' = [run EXCEPT ![s] = [pc |-> "invalid", values |-> v]]
  /\ UNCHANGED <<calcVars, poVars, asyncVars, roleVars, rowVars, storeVars, user, pageInvoices, loading, dialogOpen, editing, editingValues, toast>>

UpdateHeader_ContinuesOnError(s) ==
  /\ run[s].pc = "update"
  /\ \E ok \in BOOLEAN :
       IF ok /\ ~UpdateInvoiceError(invoices, user[s], run[s].id,
                                    HeaderSent[run[s].user_id, run[s].values])
       THEN /\ invoices' = UpdateInvoice(invoices, user[s], run[s].id,
                                         HeaderSent[run[s].user_id, run[s].values])
            /\ run' = [run EXCEPT ![s].pc = "delete_items",
                                  ![s].calls = Append(@, Call("update invoices", FALSE))]
            /\ UNCHANGED toast
       ELSE /\ run' = [run EXCEPT ![s].pc = "delete_items",
                                  ![s].calls = Append(@, Call("update invoices", TRUE))]
            /\ toast' = [toast EXCEPT ![s] = "Update failed"]
            /\ UNCHANGED invoices
  /\ UNCHANGED <<calcVars, poVars, asyncVars, roleVars, rowVars, invoice_items, issued, user, pageInvoices, loading,
                 dialogOpen, editing, editingValues>>

\* 164-172: update of the header
UpdateHeader(s) ==
  /\ run[s].pc = "update"
  /\ \E ok \in BOOLEAN :
       IF ok /\ ~UpdateInvoiceError(invoices, user[s], run[s].id,
                                    HeaderSent[run[s].user_id, run[s].values])
       THEN /\ invoices' = UpdateInvoice(invoices, user[s], run[s].id,
                                         HeaderSent[run[s].user_id, run[s].values])
            /\ run' = [run EXCEPT ![s].pc = "delete_items",
                                  ![s].calls = Append(@, Call("update invoices", FALSE))]
            /\ UNCHANGED toast
       ELSE /\ Finish(s, run[s].id, "Update failed", Call("update invoices", TRUE))
            /\ UNCHANGED invoices
  /\ UNCHANGED <<calcVars, poVars, asyncVars, roleVars, rowVars, invoice_items, issued, user, pageInvoices, loading,
                 dialogOpen, editing, editingValues>>

\* 173-178: removal of the existing items
DeleteItems(s) ==
  /\ run[s].pc = "delete_items"
  /\ \E ok \in BOOLEAN :
       IF ok
       THEN /\ invoice_items' =
                 DeleteItemsOf(invoice_items, invoices, user[s], run[s].id)
            /\ run' = [run EXCEPT ![s].pc = "insert_items",
                                  ![s].calls = Append(@, Call("delete invoice_items", FALSE))]
            /\ UNCHANGED toast
       ELSE /\ Finish(s, run[s].id, "Items cleanup failed", Call("delete invoice_items", TRUE))
            /\ UNCHANGED invoice_items
  /\ UNCHANGED <<calcVars, poVars, asyncVars, roleVars, rowVars, invoices, issued, user, pageInvoices, loading,
                 dialogOpen, editing, editingValues>>

\* 179-208: insert of the new items and the end of a successful update
InsertItems(s) ==
  /\ run[s].pc = "insert_items"
  /\ \E ok \in BOOLEAN :
       IF ok /\ ~InsertItemsError(invoices, user[s], ItemsSent[run[s].id, run[s].values])
       THEN /\ invoice_items' =
                 InsertItemRows(invoice_items, ItemsSent[run[s].id, run[s].values])
            /\ Finish(s, run[s].id, "Invoice updated", Call("insert invoice_items", FALSE))
            /\ dialogOpen' = [dialogOpen EXCEPT ![s] = FALSE]
            /\ editing' = [editing EXCEPT ![s] = NoInvoice]
            /\ editingValues' = [editingValues EXCEPT ![s] = NoValues]
            /\ loading' = [loading EXCEPT ![s] = TRUE]
       ELSE /\ Finish(s, run[s].id, "Saving items failed", Call("insert invoice_items", TRUE))
            /\ UNCHANGED <<invoice_items, dialogOpen, editing, editingValues, loading>>
  /\ UNCHANGED <<calcVars, poVars, asyncVars, roleVars, rowVars, invoices, issued, user, pageInvoices>>

\* 210-219: insert of the header; the store generates the id
InsertHeader(s, limit) ==
  /\ run[s].pc = "create"
  /\ \E ok \in BOOLEAN :
       IF /\ ok
          /\ issued < limit
          /\ ~InsertInvoiceError(invoices, user[s],
                                 HeaderSent[run[s].user_id, run[s].values])
       THEN /\ invoices' = InsertInvoice(invoices, issued + 1,
                                         HeaderSent[run[s].user_id, run[s].values])
            /\ issued' = issued + 1
            /\ run' = [run EXCEPT ![s].pc = "create_items", ![s].id = issued + 1,
                                  ![s].calls = Append(@, Call("insert invoices", FALSE))]
            /\ UNCHANGED toast
       ELSE /\ Finish(s, NoInvoice, "Create failed", Call("insert invoices", TRUE))
            /\ UNCHANGED <<invoices, issued>>
  /\ UNCHANGED <<calcVars, poVars, asyncVars, roleVars, rowVars, invoice_items, user, pageInvoices, loading,
                 dialogOpen, editing, editingValues>>

\* 220-247: insert of the items of the created invoice and the end of a
\* successful create
InsertCreatedItems(s) ==
  /\ run[s].pc = "create_items"
  /\ \E ok \in BOOLEAN :
       IF ok /\ ~InsertItemsError(invoices, user[s], ItemsSent[run[s].id, run[s].values])
       THEN /\ invoice_items' =
                 InsertItemRows(invoice_items, ItemsSent[run[s].id, run[s].values])
            /\ Finish(s, run[s].id, "Invoice created", Call("insert invoice_items", FALSE))
            /\ dialogOpen' = [dialogOpen EXCEPT ![s] = FALSE]
            /\ loading' = [loading EXCEPT ![s] = TRUE]
       ELSE /\ Finish(s, run[s].id, "Saving items failed", Call("insert invoice_items", TRUE))
            /\ UNCHANGED <<invoice_items, dialogOpen, loading>>
  /\ UNCHANGED <<calcVars, poVars, asyncVars, roleVars, rowVars, invoices, issued, user, pageInvoices, editing, editingValues>>

\* handleDelete (251-261): the Delete button of a listed row, confirmed
handleDelete(s, id) ==
  /\ Ready(s)
  /\ ~dialogOpen[s]
  /\ id \in DOMAIN pageInvoices[s]
  /\ run' = [run EXCEPT ![s] = Idle]
  /\ \E ok \in BOOLEAN :
       IF ok
       THEN /\ invoices' = DeleteInvoice(invoices, user[s], id)
            /\ invoice_items' =
                 CascadeItems(invoice_items, DeleteInvoice(invoices, user[s], id))
            /\ toast' = [toast EXCEPT ![s] = "Invoice deleted"]
            /\ loading' = [loading EXCEPT ![s] = (user[s] # NoUser)]
       ELSE /\ toast' = [toast EXCEPT ![s] = "Delete failed"]
            /\ UNCHANGED <<invoices, invoice_items, loading>>
  /\ UNCHANGED <<calcVars, poVars, asyncVars, roleVars, rowVars, issued, user, pageInvoices, dialogOpen, editing, editingValues>>

\* useAuth: the client signs out; the page keeps its state and
\* fetchInvoices returns early (53)
SignOut(s) ==
  /\ Ready(s)
  /\ user[s] # NoUser
  /\ user' = [user EXCEPT ![s] = NoUser]
  /\ UNCHANGED <<calcVars, poVars, asyncVars, roleVars, rowVars, storeVars, pageInvoices, loading, dialogOpen, editing, editingValues,
                 run, toast>>

\* useAuth: a user signs in; the effect on user?.id (68-71) fetches
SignIn(s, u) ==
  /\ Ready(s)
  /\ user[s] = NoUser
  /\ user' = [user EXCEPT ![s] = u]
  /\ loading' = [loading EXCEPT ![s] = TRUE]
  /\ UNCHANGED <<calcVars, poVars, asyncVars, roleVars, rowVars, storeVars, pageInvoices, dialogOpen, editing, editingValues, run, toast>>

\* paid_amount is updated outside the page: a payment in full is recorded
\* and balance_due follows it
ExternalPayment(id) ==
  /\ id \in DOMAIN invoices
  /\ invoices[id].paid_amount = 0
  /\ invoices[id].total_amount > 0
  /\ invoices' = [invoices EXCEPT ![id].paid_amount = invoices[id].total_amount,
                                  ![id].balance_due = 0]
  /\ UNCHANGED <<calcVars, poVars, asyncVars, roleVars, rowVars, invoice_items, issued, pageVars>>

PageStep(s, limit, V) ==
  \/ fetchInvoices(s)
  \/ OpenCreate(s)
  \/ onOpenChange(s)
  \/ \E id \in InvoiceIds : startEdit(s, id)
  \/ \E v \in V : handleCreateOrUpdate(s, v)
  \/ UpdateHeader(s)
  \/ DeleteItems(s)
  \/ InsertItems(s)
  \/ InsertHeader(s, limit)
  \/ InsertCreatedItems(s)
  \/ \E id \in InvoiceIds : handleDelete(s, id)

(***************************************************************************)
(* Spec: two clients, each signed in, work on the same store.              *)
(***************************************************************************)
\* invoices the two clients create between them
MaxShared == 1

Init ==
  /\ CalcIdle
  /\ StoreIdle
  /\ user \in {[s \in Sessions |-> IF s = "s1" THEN "u1" ELSE u] : u \in Users}
  /\ pageInvoices = [s \in Sessions |-> EmptyTable]
  /\ loading = [s \in Sessions |-> TRUE]
  /\ dialogOpen = [s \in Sessions |-> FALSE]
  /\ editing = [s \in Sessions |-> NoInvoice]
  /\ editingValues = [s \in Sessions |-> NoValues]
  /\ run = [s \in Sessions |-> Idle]
  /\ toast = [s \in Sessions |-> ""]
  /\ RolesIdle
  /\ RowsIdle
  /\ OrdersIdle
  /\ AsyncIdle

Next == \E s \in Sessions : PageStep(s, MaxShared, SampleValues)

Spec == Init /\ [][Next]_vars

(***************************************************************************)
(* SpecClient: one client whose user signs out and in, and payments        *)
(* recorded outside the page.                                              *)
(***************************************************************************)
\* invoices the client creates
MaxClient == 1

InitClient ==
  /\ CalcIdle
  /\ StoreIdle
  /\ user \in {[s \in Sessions |-> IF s = "s1" THEN u ELSE NoUser] : u \in Users}
  /\ pageInvoices = [s \in Sessions |-> EmptyTable]
  /\ loading = [s \in Sessions |-> s = "s1"]
  /\ dialogOpen = [s \in Sessions |-> FALSE]
  /\ editing = [s \in Sessions |-> NoInvoice]
  /\ editingValues = [s \in Sessions |-> NoValues]
  /\ run = [s \in Sessions |-> Idle]
  /\ toast = [s \in Sessions |-> ""]
  /\ RolesIdle
  /\ RowsIdle
  /\ OrdersIdle
  /\ AsyncIdle

NextClient ==
  \/ PageStep("s1", MaxClient, SampleValues)
  \/ SignOut("s1")
  \/ \E u \in Users : SignIn("s1", u)
  \/ \E id \in InvoiceIds : ExternalPayment(id)

SpecClient == InitClient /\ [][NextClient]_vars

(***************************************************************************)
(* Purchase orders: the form of PurchaseOrderFormDialog, the tables        *)
(* purchase_orders and purchase_order_items (NUMERIC columns without a     *)
(* scale: a Number is stored as it is) and the PurchaseOrders page of      *)
(* client s1.                                                              *)
(***************************************************************************)
MaxOrders == 1
OrderIds == 1..MaxOrders

\* rows purchase_order_items has room for
MaxOrderRows == 4

PO_Item(d, q, p, tp) ==
  [description |-> d, quantity |-> q, unit_price |-> p, tax_percentage |-> tp]

PO_FormValues(n, st, items) ==
  [po_number |-> n, vendor_id |-> "", status |-> st, line_items |-> items]

\* ItemSchema (PurchaseOrderFormDialog 21-27)
PO_ItemSchema(it) ==
  /\ it.description # ""
  /\ it.quantity # Undefined /\ it.quantity >= 1000
  /\ it.unit_price # Undefined /\ it.unit_price >= 0
  /\ (it.tax_percentage = Undefined
      \/ (it.tax_percentage >= 0 /\ it.tax_percentage <= 100000))

\* FormSchema (PurchaseOrderFormDialog 29-38)
PO_FormSchema(v) ==
  /\ v.po_number # ""
  /\ v.status \in {"pending", "approved", "ordered", "received", "cancelled"}
  /\ Len(v.line_items) >= 1
  /\ \A i \in 1..Len(v.line_items) : PO_ItemSchema(v.line_items[i])

\* line items a user can type: quantity, price and percentage in 1/1000
PO_SampleItems ==
  { PO_Item("a", 1000, 1000, 0),
    PO_Item("b", 3000, 1000, 7000),
    PO_Item("a", 2000, 50000, 5000),
    PO_Item("b", 1000, 100, 7000),
    PO_Item("a", 3000, 19990, Undefined),
    PO_Item("b", 1000, 0, 100000),
    PO_Item("a", 7000, 10, 10000),
    PO_Item("b", 3000, 1100, 7000) }

PO_ValidItemLists ==
  { l \in SeqsUpTo(PO_SampleItems, MaxItems) :
      Len(l) >= 1 /\ \A i \in 1..Len(l) : PO_ItemSchema(l[i]) }

\* what the editor of the page submits and the resolver accepts
PO_SaveValues ==
  { PO_FormValues("PO-1", "pending", <<PO_Item("a", 2000, 50000, 5000)>>),
    PO_FormValues("PO-1", "ordered", <<PO_Item("b", 3000, 1000, 7000) @@ [product_id |-> "p1"],
                                       PO_Item("a", 1000, 1000, 0)>>) }

\* values the resolver is handed that break one rule each
PO_RejectedValues ==
  { PO_FormValues("PO-1", "pending", << >>),
    PO_FormValues("PO-1", "pending", <<PO_Item("", 1000, 1000, 0)>>),
    PO_FormValues("PO-1", "pending", <<PO_Item("a", 0, 1000, 0)>>),
    PO_FormValues("PO-1", "pending", <<PO_Item("a", 500, 1000, 0)>>),
    PO_FormValues("PO-1", "pending", <<PO_Item("a", 1000, -1000, 0)>>),
    PO_FormValues("PO-1", "pending", <<PO_Item("a", 1000, 1000, 101000)>>),
    PO_FormValues("PO-1", "pending", <<PO_Item("a", 1000, 1000, -5000)>>),
    PO_FormValues("", "pending", <<PO_Item("a", 1000, 1000, 0)>>) }

PO_LineCalc_LineTotalWithoutTax(it) ==
  LET base == FMul(Number(it.quantity), Number(it.unit_price))
      taxP == NumberOrZero(it.tax_percentage)
  IN  [base       |-> base,
       tax        |-> FDivSmall(FMul(base, taxP), 100),
       line_total |-> base]

\* part_003 107-108, 149: the figures of one item
PO_LineCalc(it) ==
  LET base == FMul(Number(it.quantity), Number(it.unit_price))
      taxP == NumberOrZero(it.tax_percentage)
  IN  [base       |-> base,
       tax        |-> FDivSmall(FMul(base, taxP), 100),
       line_total |-> FMul(base, FAdd(FFromInt(1), FDivSmall(taxP, 100)))]

\* items.reduce((sum, it) => sum + ..., 0) over the first n items
RECURSIVE PO_Reduce(_, _, _)
PO_Reduce(items, field, n) ==
  IF n = 0 THEN FZero
  ELSE FAdd(PO_Reduce(items, field, n - 1), PO_LineCalc(items[n])[field])

\* part_003 107-110: subtotal, taxTotal and total
PO_Totals(items) ==
  LET subtotal == PO_Reduce(items, "base", Len(items))
      taxTotal == PO_Reduce(items, "tax", Len(items))
  IN  [subtotal |-> subtotal, tax_amount |-> taxTotal,
       total_amount |-> FAdd(subtotal, taxTotal)]

\* calc of POLineItemsEditor (part_005 252-265): the running sums of the
\* preview over the first n items
RECURSIVE PO_calcFrom(_, _)
PO_calcFrom(items, n) ==
  IF n = 0 THEN [subtotal |-> FZero, taxTotal |-> FZero]
  ELSE LET acc   == PO_calcFrom(items, n - 1)
           qty   == NumberOrZero(items[n].quantity)
           price == NumberOrZero(items[n].unit_price)
           tax   == NumberOrZero(items[n].tax_percentage)
       IN  [subtotal |-> FAdd(acc.subtotal, FMul(qty, price)),
            taxTotal |-> FAdd(acc.taxTotal,
                              FDivSmall(FMul(FMul(qty, price), tax), 100))]

PO_calc(items) ==
  LET sums == PO_calcFrom(items, Len(items))
  IN  [subtotal |-> sums.subtotal, taxTotal |-> sums.taxTotal,
       total |-> FAdd(sums.subtotal, sums.taxTotal)]

\* part_003 112-126: poPayload
poPayload(uid, values) ==
  [user_id   |-> uid,
   po_number |-> values.po_number,
   vendor_id |-> IF values.vendor_id = "" THEN "null" ELSE values.vendor_id,
   status    |-> values.status]
  @@ PO_Totals(values.line_items)

\* it.product_id || null (144, 178): the product chosen in the form
ProductOf(it) ==
  IF "product_id" \in DOMAIN it /\ it.product_id # ""
  THEN Some(it.product_id) ELSE Null

itemsPayload_KeepsReceived(order_id, items) ==
  [i \in 1..Len(items) |->
     [purchase_order_id |-> order_id,
      product_id        |-> ProductOf(items[i]),
      description       |-> items[i].description,
      quantity          |-> Number(items[i].quantity),
      unit_price        |-> Number(items[i].unit_price),
      tax_percentage    |-> NumberOrZero(items[i].tax_percentage),
      line_total        |-> PO_LineCalc(items[i]).line_total,
      received_quantity |-> Number(items[i].quantity)]]

\* part_003 142-151 / 176-185: itemsPayload
itemsPayload(order_id, items) ==
  [i \in 1..Len(items) |->
     [purchase_order_id |-> order_id,
      product_id        |-> ProductOf(items[i]),
      description       |-> items[i].description,
      quantity          |-> Number(items[i].quantity),
      unit_price        |-> Number(items[i].unit_price),
      tax_percentage    |-> NumberOrZero(items[i].tax_percentage),
      line_total        |-> PO_LineCalc(items[i]).line_total,
      received_quantity |-> FZero]]

\* the payloads of each submitted form, evaluated once
PO_HeaderSent == [v \in PO_SaveValues |-> poPayload("u1", v)]
PO_ItemsSent == [i \in OrderIds, v \in PO_SaveValues |-> itemsPayload(i, v.line_items)]

PO_ItemsOf(items, id) ==
  [r \in {x \in DOMAIN items : x.purchase_order_id = id} |-> items[r]]

\* policy "Users can manage PO items for their purchase orders"
PO_ItemPolicy(orders, uid, order_id) ==
  /\ uid # NoUser
  /\ order_id \in DOMAIN orders
  /\ orders[order_id].user_id = uid

\* from('purchase_orders').update(cols).eq('id', id).eq('user_id', uid)
PO_UpdateError(orders, uid, id, cols) ==
  UpdateTargets(orders, uid, id, cols) # {} /\ ~InvoicePolicy(uid, cols)

\* from('purchase_orders').insert([cols]).select('id').single()
PO_Insert(orders, id, cols) ==
  [j \in DOMAIN orders \cup {id} |-> IF j = id THEN cols ELSE orders[j]]

\* purchase_order_items.purchase_order_id ... ON DELETE CASCADE
PO_CascadeItems(items, orders) ==
  [r \in {x \in DOMAIN items : x.purchase_order_id \in DOMAIN orders} |-> items[r]]

\* from('purchase_order_items').delete().eq('purchase_order_id', id)
PO_DeleteItemsOf(items, orders, uid, id) ==
  [r \in {x \in DOMAIN items :
            ~(x.purchase_order_id = id /\ PO_ItemPolicy(orders, uid, id))} |-> items[r]]

\* from('purchase_order_items').insert(rows): every row must pass the policy
PO_InsertItemsError(orders, uid, sent) ==
  \E k \in DOMAIN sent : ~PO_ItemPolicy(orders, uid, sent[k].purchase_order_id)

\* startEdit 90-96: a stored item as a form item; product_id is undefined
\* when the column is NULL
PO_RestoreItem(row) ==
  LET it == [description    |-> row.description,
             quantity       |-> row.quantity,
             unit_price     |-> row.unit_price,
             tax_percentage |-> row.tax_percentage]
  IN  IF row.product_id = Null THEN it
      ELSE it @@ [product_id |-> CHOOSE x \in row.product_id : TRUE]

\* startEdit 81-96: the form values made of the listed order and the items read
PO_InitialData(order, items) ==
  [po_number  |-> order.po_number,
   vendor_id  |-> IF order.vendor_id = "null" THEN "" ELSE order.vendor_id,
   status     |-> order.status,
   restored   |-> TRUE,
   line_items |-> [k \in 1..Len(items) |-> PO_RestoreItem(items[k])]]

(***************************************************************************)
(* The PurchaseOrders page.  As on the Invoices page a handler runs from   *)
(* one await to the next as one action, its store call included.           *)
(***************************************************************************)
PO_Ready ==
  /\ orderPage.mounted
  /\ orderPage.run.pc \in {"idle", "done", "invalid"}
  /\ ~orderPage.loading

\* the handler returns after its store call c: title is its notification
PO_Finish(title, c) ==
  [pc |-> "done", id |-> orderPage.run.id, values |-> orderPage.run.values,
   title |-> title, calls |-> Append(orderPage.run.calls, c)]

\* fetchOrders (44-58), the response of the select
fetchOrders ==
  /\ orderPage.mounted
  /\ orderPage.loading
  /\ \E ok \in BOOLEAN :
       orderPage' =
         IF ok
         THEN [orderPage EXCEPT
                 !.loading = FALSE,
                 !.orders = [j \in SelectInvoices(purchase_orders, user["s1"]) |->
                               purchase_orders[j]]]
         ELSE [orderPage EXCEPT
                 !.loading = FALSE,
                 !.toast = "Failed to load purchase orders"]
  /\ UNCHANGED <<calcVars, storeVars, pageVars, roleVars, rowVars, asyncVars,
                 purchase_orders, purchase_order_items, orderIssued>>

\* the "Create Purchase Order" button (231)
PO_OpenCreate ==
  /\ PO_Ready
  /\ ~orderPage.dialogOpen
  /\ orderPage' = [orderPage EXCEPT !.editing = NoInvoice, !.editingValues = NoValues,
                                    !.dialogOpen = TRUE, !.run = Idle, !.toast = ""]
  /\ UNCHANGED <<calcVars, storeVars, pageVars, roleVars, rowVars, asyncVars,
                 purchase_orders, purchase_order_items, orderIssued>>

\* startEdit (74-99): the Edit button of a listed order; an error of the
\* select leaves items undefined and the form gets no line items
PO_startEdit(id) ==
  /\ PO_Ready
  /\ ~orderPage.dialogOpen
  /\ id \in DOMAIN orderPage.orders
  /\ \E ok \in BOOLEAN :
     \E items \in RowOrders(IF ok /\ PO_ItemPolicy(purchase_orders, user["s1"], id)
                            THEN PO_ItemsOf(purchase_order_items, id)
                            ELSE EmptyBag) :
       orderPage' = [orderPage EXCEPT
                       !.editing = id,
                       !.editingValues = PO_InitialData(orderPage.orders[id], items),
                       !.dialogOpen = TRUE, !.run = Idle, !.toast = ""]
  /\ UNCHANGED <<calcVars, storeVars, pageVars, roleVars, rowVars, asyncVars,
                 purchase_orders, purchase_order_items, orderIssued>>

\* onOpenChange(false) (347-352): the dialog is closed
PO_onOpenChange ==
  /\ PO_Ready
  /\ orderPage.dialogOpen
  /\ orderPage' = [orderPage EXCEPT !.editing = NoInvoice, !.editingValues = NoValues,
                                    !.dialogOpen = FALSE, !.run = Idle, !.toast = ""]
  /\ UNCHANGED <<calcVars, storeVars, pageVars, roleVars, rowVars, asyncVars,
                 purchase_orders, purchase_order_items, orderIssued>>

\* form.handleSubmit (PurchaseOrderFormDialog 105-108): the resolver rejects
\* the values and onSubmit is not called
PO_handleSubmit(v) ==
  /\ PO_Ready
  /\ orderPage.dialogOpen
  /\ ~PO_FormSchema(v)
  /\ orderPage' = [orderPage EXCEPT !.run = [pc |-> "invalid", values |-> v]]
  /\ UNCHANGED <<calcVars, storeVars, pageVars, roleVars, rowVars, asyncVars,
                 purchase_orders, purchase_order_items, orderIssued>>

\* handleCreateOrUpdate (101-126): the form is submitted with values v; the
\* handler builds poPayload and issues its first store call
PO_handleCreateOrUpdate(v) ==
  /\ PO_Ready
  /\ orderPage.dialogOpen
  /\ PO_FormSchema(v)
  /\ BagCardinality(purchase_order_items) + Len(v.line_items) <= MaxOrderRows
  /\ orderPage' =
       IF user["s1"] = NoUser
       THEN [orderPage EXCEPT !.run = Idle, !.toast = "Sign in required"]
       ELSE [orderPage EXCEPT
               !.run = [pc     |-> IF orderPage.editing # NoInvoice
                                   THEN "update" ELSE "create",
                        id     |-> orderPage.editing,
                        values |-> v,
                        calls  |-> << >>],
               !.toast = ""]
  /\ UNCHANGED <<calcVars, storeVars, pageVars, roleVars, rowVars, asyncVars,
                 purchase_orders, purchase_order_items, orderIssued>>

\* 128-138: update of the header
PO_UpdateHeader ==
  /\ orderPage.run.pc = "update"
  /\ \E ok \in BOOLEAN :
       LET cols == PO_HeaderSent[orderPage.run.values]
           id   == orderPage.run.id
       IN  IF ok /\ ~PO_UpdateError(purchase_orders, user["s1"], id, cols)
           THEN /\ purchase_orders' = UpdateInvoice(purchase_orders, user["s1"], id, cols)
                /\ orderPage' =
                     [orderPage EXCEPT
                        !.run.pc = "delete_items",
                        !.run.calls = Append(@, Call("update purchase_orders", FALSE))]
           ELSE /\ orderPage' =
                     [orderPage EXCEPT
                        !.run = PO_Finish("Update failed",
                                          Call("update purchase_orders", TRUE)),
                        !.toast = "Update failed"]
                /\ UNCHANGED purchase_orders
  /\ UNCHANGED <<calcVars, storeVars, pageVars, roleVars, rowVars, asyncVars,
                 purchase_order_items, orderIssued>>

\* 140: removal of the existing items; the result of the call is not read
PO_DeleteItems ==
  /\ orderPage.run.pc = "delete_items"
  /\ \E ok \in BOOLEAN :
       /\ purchase_order_items' =
            IF ok
            THEN PO_DeleteItemsOf(purchase_order_items, purchase_orders, user["s1"],
                                  orderPage.run.id)
            ELSE purchase_order_items
       /\ orderPage' =
            [orderPage EXCEPT
               !.run.pc = "insert_items",
               !.run.calls = Append(@, Call("delete purchase_order_items", ~ok))]
  /\ UNCHANGED <<calcVars, storeVars, pageVars, roleVars, rowVars, asyncVars,
                 purchase_orders, orderIssued>>

\* 142-163: insert of the new items and the end of the update
PO_InsertItems ==
  /\ orderPage.run.pc = "insert_items"
  /\ \E ok \in BOOLEAN :
       LET sent == PO_ItemsSent[orderPage.run.id, orderPage.run.values]
       IN  IF ok /\ ~PO_InsertItemsError(purchase_orders, user["s1"], sent)
           THEN /\ purchase_order_items' = InsertItemRows(purchase_order_items, sent)
                /\ orderPage' =
                     [orderPage EXCEPT
                        !.run = PO_Finish("Purchase order updated",
                                          Call("insert purchase_order_items", FALSE)),
                        !.toast = "Purchase order updated",
                        !.dialogOpen = FALSE,
                        !.editing = NoInvoice,
                        !.editingValues = NoValues,
                        !.loading = TRUE]
           ELSE /\ orderPage' =
                     [orderPage EXCEPT
                        !.run = PO_Finish("Update failed",
                                          Call("insert purchase_order_items", TRUE)),
                        !.toast = "Update failed"]
                /\ UNCHANGED purchase_order_items
  /\ UNCHANGED <<calcVars, storeVars, pageVars, roleVars, rowVars, asyncVars,
                 purchase_orders, orderIssued>>

\* 164-174: insert of the header; the store generates the id
PO_InsertHeader ==
  /\ orderPage.run.pc = "create"
  /\ \E ok \in BOOLEAN :
       LET cols == PO_HeaderSent[orderPage.run.values]
       IN  IF ok /\ orderIssued < MaxOrders /\ InvoicePolicy(user["s1"], cols)
           THEN /\ purchase_orders' = PO_Insert(purchase_orders, orderIssued + 1, cols)
                /\ orderIssued' = orderIssued + 1
                /\ orderPage' =
                     [orderPage EXCEPT
                        !.run.pc = "create_items",
                        !.run.id = orderIssued + 1,
                        !.run.calls = Append(@, Call("insert purchase_orders", FALSE))]
           ELSE /\ orderPage' =
                     [orderPage EXCEPT
                        !.run = PO_Finish("Create failed",
                                          Call("insert purchase_orders", TRUE)),
                        !.toast = "Create failed"]
                /\ UNCHANGED <<purchase_orders, orderIssued>>
  /\ UNCHANGED <<calcVars, storeVars, pageVars, roleVars, rowVars, asyncVars, purchase_order_items>>

\* 176-195: insert of the items of the created order and the end of the create
PO_InsertCreatedItems ==
  /\ orderPage.run.pc = "create_items"
  /\ \E ok \in BOOLEAN :
       LET sent == PO_ItemsSent[orderPage.run.id, orderPage.run.values]
       IN  IF ok /\ ~PO_InsertItemsError(purchase_orders, user["s1"], sent)
           THEN /\ purchase_order_items' = InsertItemRows(purchase_order_items, sent)
                /\ orderPage' =
                     [orderPage EXCEPT
                        !.run = PO_Finish("Purchase order created",
                                          Call("insert purchase_order_items", FALSE)),
                        !.toast = "Purchase order created",
                        !.dialogOpen = FALSE,
                        !.loading = TRUE]
           ELSE /\ orderPage' =
                     [orderPage EXCEPT
                        !.run = PO_Finish("Create failed",
                                          Call("insert purchase_order_items", TRUE)),
                        !.toast = "Create failed"]
                /\ UNCHANGED purchase_order_items
  /\ UNCHANGED <<calcVars, storeVars, pageVars, roleVars, rowVars, asyncVars,
                 purchase_orders, orderIssued>>

\* handleDelete (199-209): the Delete button of a listed order, confirmed
PO_handleDelete(id) ==
  /\ PO_Ready
  /\ ~orderPage.dialogOpen
  /\ id \in DOMAIN orderPage.orders
  /\ \E ok \in BOOLEAN :
       IF ok
       THEN /\ purchase_orders' = DeleteInvoice(purchase_orders, user["s1"], id)
            /\ purchase_order_items' =
                 PO_CascadeItems(purchase_order_items,
                                 DeleteInvoice(purchase_orders, user["s1"], id))
            /\ orderPage' = [orderPage EXCEPT !.run = Idle,
                                              !.toast = "Purchase order deleted",
                                              !.loading = TRUE]
       ELSE /\ orderPage' = [orderPage EXCEPT !.run = Idle, !.toast = "Delete failed"]
            /\ UNCHANGED <<purchase_orders, purchase_order_items>>
  /\ UNCHANGED <<calcVars, storeVars, pageVars, roleVars, rowVars, asyncVars, orderIssued>>

OrderStep ==
  \/ fetchOrders
  \/ PO_OpenCreate
  \/ PO_onOpenChange
  \/ \E id \in OrderIds : PO_startEdit(id)
  \/ \E v \in PO_SaveValues \cup PO_RejectedValues : PO_handleSubmit(v)
  \/ \E v \in PO_SaveValues \cup PO_RejectedValues : PO_handleCreateOrUpdate(v)
  \/ PO_UpdateHeader
  \/ PO_DeleteItems
  \/ PO_InsertItems
  \/ PO_InsertHeader
  \/ PO_InsertCreatedItems
  \/ \E id \in OrderIds : PO_handleDelete(id)

(***************************************************************************)
(* SpecSave: one client signed in as u1 has either the Invoices page or    *)
(* the PurchaseOrders page open and submits forms, valid and not.          *)
(***************************************************************************)
InitSave ==
  /\ CalcIdle
  /\ AsyncIdle
  /\ StoreIdle
  /\ RolesIdle
  /\ RowsIdle
  /\ purchase_orders = EmptyTable
  /\ purchase_order_items = EmptyBag
  /\ orderIssued = 0
  /\ user = [s \in Sessions |-> IF s = "s1" THEN "u1" ELSE NoUser]
  /\ pageInvoices = [s \in Sessions |-> EmptyTable]
  /\ dialogOpen = [s \in Sessions |-> FALSE]
  /\ editing = [s \in Sessions |-> NoInvoice]
  /\ editingValues = [s \in Sessions |-> NoValues]
  /\ run = [s \in Sessions |-> Idle]
  /\ toast = [s \in Sessions |-> ""]
  /\ \E orders \in BOOLEAN :
       /\ loading = [s \in Sessions |-> s = "s1" /\ ~orders]
       /\ orderPage = [NoOrderPage EXCEPT !.mounted = orders, !.loading = orders]

NextSave ==
  \/ ~orderPage.mounted /\ PageStep("s1", MaxClient, SaveValues \cup RejectedValues)
  \/ ~orderPage.mounted /\ \E v \in SaveValues \cup RejectedValues : handleSubmit("s1", v)
  \/ OrderStep

SpecSave == InitSave /\ [][NextSave]_vars

(***************************************************************************)
(* SpecReceipt: the PurchaseOrders page of client s1 while deliveries are  *)
(* recorded on the stored items outside the page.                          *)
(***************************************************************************)
\* received_quantity is kept outside the page: the delivery of a stored item
\* is recorded in full
ExternalReceipt(row) ==
  /\ BagIn(row, purchase_order_items)
  /\ row.received_quantity = FZero
  /\ purchase_order_items' =
       (purchase_order_items (-) SetToBag({row}))
         (+) SetToBag({[row EXCEPT !.received_quantity = row.quantity]})
  /\ UNCHANGED <<calcVars, storeVars, pageVars, roleVars, rowVars, asyncVars,
                 purchase_orders, orderIssued, orderPage>>

InitReceipt ==
  /\ CalcIdle
  /\ AsyncIdle
  /\ StoreIdle
  /\ RolesIdle
  /\ RowsIdle
  /\ purchase_orders = EmptyTable
  /\ purchase_order_items = EmptyBag
  /\ orderIssued = 0
  /\ user = [s \in Sessions |-> IF s = "s1" THEN "u1" ELSE NoUser]
  /\ pageInvoices = [s \in Sessions |-> EmptyTable]
  /\ loading = [s \in Sessions |-> FALSE]
  /\ dialogOpen = [s \in Sessions |-> FALSE]
  /\ editing = [s \in Sessions |-> NoInvoice]
  /\ editingValues = [s \in Sessions |-> NoValues]
  /\ run = [s \in Sessions |-> Idle]
  /\ toast = [s \in Sessions |-> ""]
  /\ orderPage = [NoOrderPage EXCEPT !.mounted = TRUE, !.loading = TRUE]

NextReceipt ==
  \/ OrderStep
  \/ \E row \in BagToSet(purchase_order_items) : ExternalReceipt(row)

SpecReceipt == InitReceipt /\ [][NextReceipt]_vars
(***************************************************************************)
(* SpecOrderCalc: the totals computation of the PurchaseOrders             *)
(* handleCreateOrUpdate and the preview of POLineItemsEditor on every      *)
(* validated line-item list.                                               *)
(***************************************************************************)
InitOrderCalc ==
  /\ line_items \in PO_ValidItemLists
  /\ payload = NoPayload
  /\ StoreIdle
  /\ PageIdle
  /\ RolesIdle
  /\ RowsIdle
  /\ OrdersIdle
  /\ AsyncIdle

\* the editor shows its preview and handleCreateOrUpdate builds poPayload
\* and itemsPayload up to the first store call
PO_BuildPayload ==
  /\ payload = NoPayload
  /\ payload' = [built   |-> TRUE,
                 header  |-> poPayload("u1", PO_FormValues("PO-1", "pending", line_items)),
                 rows    |-> itemsPayload(1, line_items),
                 preview |-> PO_calc(line_items)]
  /\ UNCHANGED <<line_items, storeVars, pageVars, roleVars, rowVars, poVars, asyncVars>>

\* the dialog is reopened with another list
PO_ResetForm ==
  /\ payload # NoPayload
  /\ line_items' \in PO_ValidItemLists
  /\ payload' = NoPayload
  /\ UNCHANGED <<storeVars, pageVars, roleVars, rowVars, poVars, asyncVars>>

NextOrderCalc == PO_BuildPayload \/ PO_ResetForm

SpecOrderCalc == InitOrderCalc /\ [][NextOrderCalc]_vars

(***************************************************************************)
(* Roles: table user_roles behind its policies, the useUserRoles hook and  *)
(* the user management page.                                               *)
(***************************************************************************)
\* has_role (18-31)
has_role(ur, uid, role) == RoleRow(uid, role) \in ur

\* is_admin (34-42)
is_admin(ur, uid) == has_role(ur, uid, "admin")

\* policies "Users can view their own roles" and "Admins can view all roles"
SelectRoles(ur, uid) ==
  { x \in ur : (uid # NoUser /\ uid = x.user_id) \/ is_admin(ur, uid) }

\* the insert checks without the policy: for comparison
InsertRoleError_Unchecked(ur, acc, uid, row) ==
  \/ row \in ur
  \/ row.user_id \notin acc

\* policy "Admins can assign roles": FOR INSERT WITH CHECK (is_admin(auth.uid()));
\* UNIQUE(user_id, role); user_id REFERENCES auth.users(id)
InsertRoleError(ur, acc, uid, row) ==
  \/ ~is_admin(ur, uid)
  \/ row \in ur
  \/ row.user_id \notin acc

\* policy "Admins can remove roles": FOR DELETE USING (is_admin(auth.uid()));
\* from('user_roles').delete().eq('user_id', target)
DeleteRolesOf(ur, uid, target) ==
  { x \in ur : ~(x.user_id = target /\ is_admin(ur, uid)) }

\* the policies FOR UPDATE of user_roles: there is none, so an UPDATE sees no row
UpdatePolicies == {}

UpdateRole(ur, uid, row, role) ==
  IF row \in ur /\ UpdatePolicies # {}
  THEN (ur \ {row}) \cup {RoleRow(row.user_id, role)}
  ELSE ur

RolesOf(ur, uid) == { x.role : x \in { y \in ur : y.user_id = uid } }

\* the role handler returns: title is its notification
FinishRole(s, title) ==
  /\ roleRun' = [roleRun EXCEPT ![s] = Idle]
  /\ toast' = [toast EXCEPT ![s] = title]

RoleReady(s) == roleRun[s].pc = "idle"

SignUp_NoRole(s, u) ==
  /\ user[s] = NoUser
  /\ u \notin accounts
  /\ accounts' = accounts \cup {u}
  /\ user_roles' = user_roles
  /\ user' = [user EXCEPT ![s] = u]
  /\ UNCHANGED <<calcVars, poVars, asyncVars, rowVars, storeVars, pageInvoices, loading, dialogOpen,
                 editing, editingValues, run, toast, isAdmin, users, roleRun, reply>>

\* a client signs up as u and is signed in; handle_new_user_role (83-99)
\* gives the new account the role user
SignUp(s, u) ==
  /\ user[s] = NoUser
  /\ u \notin accounts
  /\ accounts' = accounts \cup {u}
  /\ user_roles' = user_roles \cup {RoleRow(u, "user")}
  /\ user' = [user EXCEPT ![s] = u]
  /\ UNCHANGED <<calcVars, poVars, asyncVars, rowVars, storeVars, pageInvoices, loading, dialogOpen,
                 editing, editingValues, run, toast, isAdmin, users, roleRun, reply>>

\* useUserRoles (14-39): the effect reads the roles of the signed-in user
fetchRoles(s) ==
  /\ RoleReady(s)
  /\ user[s] # NoUser
  /\ \E ok \in BOOLEAN :
       isAdmin' = IF ok
                  THEN [isAdmin EXCEPT ![s] =
                          "admin" \in RolesOf(SelectRoles(user_roles, user[s]), user[s])]
                  ELSE isAdmin
  /\ UNCHANGED <<calcVars, poVars, asyncVars, rowVars, storeVars, pageVars, accounts, user_roles, users,
                 roleRun, reply>>

\* fetchUsers (361-416), run by the effect once isAdmin is set (418-423) and
\* by handleRoleChange after a role change (451)
fetchUsers(s) ==
  /\ \/ RoleReady(s) /\ isAdmin[s]
     \/ roleRun[s].pc = "fetch_users"
  /\ \E ok \in BOOLEAN :
       IF ok
       THEN /\ users' = [users EXCEPT ![s] = accounts]
            /\ UNCHANGED toast
       ELSE /\ toast' = [toast EXCEPT ![s] = "Failed to load roles"]
            /\ UNCHANGED users
  /\ roleRun' = [roleRun EXCEPT ![s] = Idle]
  /\ UNCHANGED <<calcVars, poVars, asyncVars, rowVars, storeVars, user, pageInvoices, loading, dialogOpen,
                 editing, editingValues, run, accounts, user_roles, isAdmin, reply>>

\* handleRoleChange (425-428): the role select of a listed user (the page
\* shows it while isAdmin, 480); the handler issues the delete
handleRoleChange(s, userId, newRole) ==
  /\ RoleReady(s)
  /\ isAdmin[s]
  /\ userId \in users[s]
  /\ roleRun' = [roleRun EXCEPT ![s] =
                   [pc |-> "delete_roles", userId |-> userId, newRole |-> newRole,
                    asAdmin |-> is_admin(user_roles, user[s])]]
  /\ toast' = [toast EXCEPT ![s] = ""]
  /\ UNCHANGED <<calcVars, poVars, asyncVars, rowVars, storeVars, user, pageInvoices, loading, dialogOpen,
                 editing, editingValues, run, accounts, user_roles, isAdmin, users, reply>>

\* 429-438: removal of the existing roles of the user
DeleteRoles(s) ==
  /\ roleRun[s].pc = "delete_roles"
  /\ \E ok \in BOOLEAN :
       IF ok
       THEN /\ user_roles' = DeleteRolesOf(user_roles, user[s], roleRun[s].userId)
            /\ roleRun' = [roleRun EXCEPT ![s].pc = "insert_role"]
            /\ UNCHANGED toast
       ELSE /\ FinishRole(s, "Failed to update role")
            /\ UNCHANGED user_roles
  /\ UNCHANGED <<calcVars, poVars, asyncVars, rowVars, storeVars, user, pageInvoices, loading, dialogOpen,
                 editing, editingValues, run, accounts, isAdmin, users, reply>>

\* 440-451: insert of the new role; when it is accepted the handler goes on
\* to fetchUsers
InsertRole(s) ==
  /\ roleRun[s].pc = "insert_role"
  /\ \E ok \in BOOLEAN :
       IF ok /\ ~InsertRoleError(user_roles, accounts, user[s],
                                 RoleRow(roleRun[s].userId, roleRun[s].newRole))
       THEN /\ user_roles' =
                 user_roles \cup {RoleRow(roleRun[s].userId, roleRun[s].newRole)}
            /\ roleRun' = [roleRun EXCEPT ![s] = [pc |-> "fetch_users"]]
            /\ toast' = [toast EXCEPT ![s] = "Role updated successfully"]
       ELSE /\ FinishRole(s, "Failed to assign role")
            /\ UNCHANGED user_roles
  /\ UNCHANGED <<calcVars, poVars, asyncVars, rowVars, storeVars, user, pageInvoices, loading, dialogOpen,
                 editing, editingValues, run, accounts, isAdmin, users, reply>>

\* a client issues an insert on user_roles with its own token
ApiInsertRole(s, row) ==
  /\ RoleReady(s)
  /\ IF InsertRoleError(user_roles, accounts, user[s], row)
     THEN /\ reply' = [by |-> s, op |-> "insert", error |-> TRUE]
          /\ UNCHANGED user_roles
     ELSE /\ reply' = [by |-> s, op |-> "insert", error |-> FALSE]
          /\ user_roles' = user_roles \cup {row}
  /\ UNCHANGED <<calcVars, poVars, asyncVars, rowVars, storeVars, pageVars, accounts, isAdmin, users, roleRun>>

\* a client issues a delete on user_roles with its own token
ApiDeleteRoles(s, target) ==
  /\ RoleReady(s)
  /\ reply' = [by |-> s, op |-> "delete", error |-> FALSE]
  /\ user_roles' = DeleteRolesOf(user_roles, user[s], target)
  /\ UNCHANGED <<calcVars, poVars, asyncVars, rowVars, storeVars, pageVars, accounts, isAdmin, users, roleRun>>

\* a client issues an update of a user_roles row with its own token
ApiUpdateRole(s, row, role) ==
  /\ RoleReady(s)
  /\ row \in user_roles
  /\ reply' = [by |-> s, op |-> "update", error |-> FALSE]
  /\ user_roles' = UpdateRole(user_roles, user[s], row, role)
  /\ UNCHANGED <<calcVars, poVars, asyncVars, rowVars, storeVars, pageVars, accounts, isAdmin, users, roleRun>>

\* the user management page of client s
RolePage(s) ==
  \/ fetchRoles(s)
  \/ fetchUsers(s)
  \/ \E u \in Users, r \in Roles : handleRoleChange(s, u, r)
  \/ DeleteRoles(s)
  \/ InsertRole(s)

\* the statements client s can issue on user_roles
RoleStatement(s) ==
  \/ \E u \in Users, r \in Roles : ApiInsertRole(s, RoleRow(u, r))
  \/ \E u \in Users : ApiDeleteRoles(s, u)
  \/ \E u \in Users, r \in Roles, r2 \in Roles : ApiUpdateRole(s, RoleRow(u, r), r2)

(***************************************************************************)
(* SpecRoles: client s1 is signed in as u1, whom the operator made admin,  *)
(* and has the user management page; u2 signs up on client s2; both        *)
(* clients issue statements on user_roles.                                 *)
(***************************************************************************)
InitRoles ==
  /\ CalcIdle
  /\ StoreIdle
  /\ user = [s \in Sessions |-> IF s = "s1" THEN "u1" ELSE NoUser]
  /\ pageInvoices = [s \in Sessions |-> EmptyTable]
  /\ loading = [s \in Sessions |-> FALSE]
  /\ dialogOpen = [s \in Sessions |-> FALSE]
  /\ editing = [s \in Sessions |-> NoInvoice]
  /\ editingValues = [s \in Sessions |-> NoValues]
  /\ run = [s \in Sessions |-> Idle]
  /\ toast = [s \in Sessions |-> ""]
  /\ accounts = {"u1"}
  /\ user_roles = {RoleRow("u1", "user"), RoleRow("u1", "admin")}
  /\ isAdmin = [s \in Sessions |-> FALSE]
  /\ users = [s \in Sessions |-> {}]
  /\ roleRun = [s \in Sessions |-> Idle]
  /\ reply = NoReply
  /\ RowsIdle
  /\ OrdersIdle
  /\ AsyncIdle

NextRoles ==
  \/ RolePage("s1")
  \/ \E s \in Sessions : RoleStatement(s)
  \/ SignUp("s2", "u2")

SpecRoles == InitRoles /\ [][NextRoles]_vars

(***************************************************************************)
(* SpecHook: one mounted useUserRoles instance of client s1 while the      *)
(* user of useAuth changes and the fetches the effect started resolve in   *)
(* any order.  The hook is mounted while no user is signed in; the role     *)
(* table is any table over the accounts and stays as it is during a        *)
(* behaviour.                                                              *)
(***************************************************************************)
\* fetches the hook may have outstanding at a time
MaxFetches == 2

\* the role tables over the accounts
RoleTables == SUBSET { RoleRow(u, r) : u \in Users, r \in Roles }

\* fetchRoles 24-30: the roles of the rows the select returns to uid
FetchedRoles(ur, uid) ==
  { x.role : x \in { y \in SelectRoles(ur, uid) : y.user_id = uid } }

includes_Any(userRoles, role) == userRoles # {}

\* userRoles.includes(role) (32-33)
includes(userRoles, role) == role \in userRoles

\* useEffect (14-39) without a user: the state is reset
HookReset(h) == [h EXCEPT !.roles = {}, !.isAdmin = FALSE, !.isAccountant = FALSE,
                          !.loading = FALSE]

\* useEffect (14-39) with user u: fetchRoles() is called and awaits its select
HookFetch(h, u) == [h EXCEPT !.fetches = @ (+) SetToBag({u})]

InitHook ==
  /\ CalcIdle
  /\ StoreIdle
  /\ PageIdle
  /\ RowsIdle
  /\ OrdersIdle
  /\ accounts = Users
  /\ user_roles \in RoleTables
  /\ isAdmin = [s \in Sessions |-> FALSE]
  /\ users = [s \in Sessions |-> {}]
  /\ roleRun = [s \in Sessions |-> Idle]
  /\ reply = NoReply
  /\ hook = HookReset(NoHook)
  /\ pendingEdit = {}

\* useAuth hands the hook another user (sign-in, sign-out, switch, or the
\* same account as a new object) and the effect runs again
useEffect(u) ==
  /\ u \in accounts \cup {NoUser}
  /\ u = NoUser => user["s1"] # NoUser
  /\ u # NoUser => BagCardinality(hook.fetches) < MaxFetches
  /\ user' = [user EXCEPT !["s1"] = u]
  /\ hook' = IF u = NoUser THEN HookReset(hook) ELSE HookFetch(hook, u)
  /\ UNCHANGED <<calcVars, storeVars, rowVars, poVars, roleVars, pendingEdit,
                 pageInvoices, loading, dialogOpen, editing, editingValues, run, toast>>

\* fetchRoles (23-36): the select for user u resolves, with data or an error
fetchRolesResolved(u) ==
  /\ BagIn(u, hook.fetches)
  /\ \E ok \in BOOLEAN :
       LET userRoles == FetchedRoles(user_roles, u)
           rest      == hook.fetches (-) SetToBag({u})
       IN IF ok
       THEN hook' = [hook EXCEPT !.roles = userRoles,
                                 !.isAdmin = includes(userRoles, "admin"),
                                 !.isAccountant = includes(userRoles, "accountant"),
                                 !.loading = FALSE,
                                 !.fetches = rest]
       ELSE hook' = [hook EXCEPT !.loading = FALSE, !.fetches = rest]
  /\ UNCHANGED <<calcVars, storeVars, rowVars, poVars, roleVars, pageVars, pendingEdit>>

NextHook ==
  \/ \E u \in Users \cup {NoUser} : useEffect(u)
  \/ \E u \in Users : fetchRolesResolved(u)

SpecHook == InitHook /\ [][NextHook]_vars

(***************************************************************************)
(* SpecFrame: one client creates, edits and deletes up to MaxFrame         *)
(* invoices while payments are recorded outside the page and the client    *)
(* issues statements on the recurrence columns, which no page writes.      *)
(***************************************************************************)
\* invoices the client creates
MaxFrame == 2

\* CHECK (recurrence_frequency IN ('weekly', 'monthly', 'quarterly', 'yearly'))
Frequencies == {"weekly", "monthly", "quarterly", "yearly"}

\* the recurrence columns of a statement; dates are day numbers
Recurrence(on, freq, start, next) ==
  [is_recurring          |-> on,
   recurrence_frequency  |-> freq,
   recurrence_start_date |-> start,
   next_recurrence_date  |-> next]

\* statements a client sends: a schedule as the recurrence contract wants it,
\* the flag alone, and a frequency outside the CHECK
RecurrenceSamples ==
  { Recurrence(TRUE, Some("monthly"), Some(10), Some(40)),
    Recurrence(TRUE, Null, Null, Null),
    Recurrence(TRUE, Some("daily"), Some(10), Some(40)) }

\* the checks of the invoices table on the recurrence columns of a row the
\* statement touches: the CHECK on recurrence_frequency, which NULL passes
RecurrenceError(inv, uid, id, cols) ==
  /\ id \in DOMAIN inv
  /\ InvoicePolicy(uid, inv[id])
  /\ cols.recurrence_frequency \notin {Null} \cup {Some(f) : f \in Frequencies}

\* from('invoices').update(cols).eq('id', id) by a client, cols being
\* recurrence columns: rows outside the policy are skipped, and a statement
\* that fails a check changes nothing
ApiUpdateRecurrence(s, id, cols) ==
  /\ user[s] # NoUser
  /\ IF RecurrenceError(invoices, user[s], id, cols)
     THEN UNCHANGED invoices
     ELSE invoices' =
            [j \in DOMAIN invoices |->
               IF j = id /\ InvoicePolicy(user[s], invoices[j])
               THEN [f \in DOMAIN invoices[j] |->
                       IF f \in DOMAIN cols THEN cols[f] ELSE invoices[j][f]]
               ELSE invoices[j]]
  /\ UNCHANGED <<calcVars, poVars, asyncVars, rowVars, invoice_items, issued, pageVars,
                 roleVars>>

InitFrame ==
  /\ CalcIdle
  /\ StoreIdle
  /\ user = [s \in Sessions |-> IF s = "s1" THEN "u1" ELSE NoUser]
  /\ pageInvoices = [s \in Sessions |-> EmptyTable]
  /\ loading = [s \in Sessions |-> s = "s1"]
  /\ dialogOpen = [s \in Sessions |-> FALSE]
  /\ editing = [s \in Sessions |-> NoInvoice]
  /\ editingValues = [s \in Sessions |-> NoValues]
  /\ run = [s \in Sessions |-> Idle]
  /\ toast = [s \in Sessions |-> ""]
  /\ RolesIdle
  /\ RowsIdle
  /\ OrdersIdle
  /\ AsyncIdle

NextFrame ==
  \/ PageStep("s1", MaxFrame, SampleValues)
  \/ \E id \in InvoiceIds : ExternalPayment(id)
  \/ \E id \in InvoiceIds : \E cols \in RecurrenceSamples :
       ApiUpdateRecurrence("s1", id, cols)

SpecFrame == InitFrame /\ [][NextFrame]_vars

(***************************************************************************)
(* SpecDialog: the Invoices page of one client with startEdit in its two   *)
(* halves: the click sends the select of the invoice's items, and the      *)
(* response sets editing, editingValues and dialogOpen whenever it arrives.*)
(***************************************************************************)
\* startEdit calls that may await their select at a time
MaxPending == 2

\* invoices the client creates
MaxDialog == 2

\* startEdit 73-79: the Edit button of a listed row; the handler awaits the
\* select with the listed row inv in hand
startEditClicked(id) ==
  /\ ~loading["s1"]
  /\ ~dialogOpen["s1"]
  /\ id \in DOMAIN pageInvoices["s1"]
  /\ user["s1"] # NoUser
  /\ Cardinality(pendingEdit) < MaxPending
  /\ pendingEdit' = pendingEdit \cup {[id |-> id, inv |-> pageInvoices["s1"][id]]}
  /\ UNCHANGED <<calcVars, poVars, hook, roleVars, rowVars, storeVars, pageVars>>

\* startEdit 80-99: the select of call p resolves
startEditResolved(p) ==
  /\ p \in pendingEdit
  /\ pendingEdit' = pendingEdit \ {p}
  /\ \E ok \in BOOLEAN :
       IF ok
       THEN /\ editing' = [editing EXCEPT !["s1"] = p.id]
            /\ \E items \in RowOrders(SelectItems(invoice_items, invoices, user["s1"], p.id)) :
                 editingValues' =
                   [editingValues EXCEPT !["s1"] = InitialData(p.inv, items)]
            /\ dialogOpen' = [dialogOpen EXCEPT !["s1"] = TRUE]
            /\ UNCHANGED toast
       ELSE /\ toast' = [toast EXCEPT !["s1"] = "Failed to load items"]
            /\ UNCHANGED <<editing, editingValues, dialogOpen>>
  /\ UNCHANGED <<calcVars, poVars, hook, roleVars, rowVars, storeVars, user, pageInvoices,
                 loading, run>>

InitDialog ==
  /\ CalcIdle
  /\ StoreIdle
  /\ user = [s \in Sessions |-> IF s = "s1" THEN "u1" ELSE NoUser]
  /\ pageInvoices = [s \in Sessions |-> EmptyTable]
  /\ loading = [s \in Sessions |-> s = "s1"]
  /\ dialogOpen = [s \in Sessions |-> FALSE]
  /\ editing = [s \in Sessions |-> NoInvoice]
  /\ editingValues = [s \in Sessions |-> NoValues]
  /\ run = [s \in Sessions |-> Idle]
  /\ toast = [s \in Sessions |-> ""]
  /\ RolesIdle
  /\ RowsIdle
  /\ OrdersIdle
  /\ AsyncIdle

NextDialog ==
  \/ PageStep("s1", MaxDialog, SampleValues)
  \/ \E id \in InvoiceIds : startEditClicked(id)
  \/ \E p \in pendingEdit : startEditResolved(p)

SpecDialog == InitDialog /\ [][NextDialog]_vars

(***************************************************************************)
(* SpecSignedOut: client s2 has the Invoices page open and client s1 the   *)
(* PurchaseOrders page; each may lose its session (useAuth: user becomes   *)
(* null) while its page stays open.                                        *)
(***************************************************************************)
\* what the two editors submit
SignedOutValues == {v \in SampleValues : Len(v.line_items) = 1}

PO_SignedOutValues == {v \in PO_SaveValues : Len(v.line_items) = 1}

\* useAuth of the PurchaseOrders page: the session of client s1 ends between
\* two handlers
PO_SignOut ==
  /\ PO_Ready
  /\ SignOut("s1")

InitSignedOut ==
  /\ CalcIdle
  /\ AsyncIdle
  /\ StoreIdle
  /\ RolesIdle
  /\ RowsIdle
  /\ purchase_orders = EmptyTable
  /\ purchase_order_items = EmptyBag
  /\ orderIssued = 0
  /\ user = [s \in Sessions |-> "u1"]
  /\ pageInvoices = [s \in Sessions |-> EmptyTable]
  /\ loading = [s \in Sessions |-> s = "s2"]
  /\ dialogOpen = [s \in Sessions |-> FALSE]
  /\ editing = [s \in Sessions |-> NoInvoice]
  /\ editingValues = [s \in Sessions |-> NoValues]
  /\ run = [s \in Sessions |-> Idle]
  /\ toast = [s \in Sessions |-> ""]
  /\ orderPage = [NoOrderPage EXCEPT !.mounted = TRUE, !.loading = TRUE]

NextSignedOut ==
  \/ PageStep("s2", MaxClient, SignedOutValues)
  \/ SignOut("s2")
  \/ fetchOrders
  \/ PO_OpenCreate
  \/ PO_onOpenChange
  \/ \E id \in OrderIds : PO_startEdit(id)
  \/ \E v \in PO_SignedOutValues : PO_handleCreateOrUpdate(v)
  \/ PO_UpdateHeader
  \/ PO_DeleteItems
  \/ PO_InsertItems
  \/ PO_InsertHeader
  \/ PO_InsertCreatedItems
  \/ PO_SignOut

SpecSignedOut == InitSignedOut /\ [][NextSignedOut]_vars

(***************************************************************************)
(* Ownership: every owned table and line-item table behind its policy,     *)
(* with the foreign keys between them.  Each table has one row slot, so a  *)
(* non-null foreign key refers to the row in the slot of the table it      *)
(* references; refs is the set of a row's non-null foreign-key columns.    *)
(* The self-references (parent_account_id, parent_invoice_id) need two     *)
(* rows of one table and are left out.                                     *)
(***************************************************************************)
ForeignKey(t, c, r, act, req) ==
  [table |-> t, column |-> c, references |-> r, on_delete |-> act, required |-> req]

ForeignKeys ==
  { ForeignKey("invoices", "customer_id", "customers", "no action", TRUE),
    ForeignKey("invoice_items", "invoice_id", "invoices", "cascade", TRUE),
    ForeignKey("invoice_items", "product_id", "products", "no action", FALSE),
    ForeignKey("expenses", "vendor_id", "vendors", "no action", FALSE),
    ForeignKey("expenses", "account_id", "chart_of_accounts", "no action", FALSE),
    ForeignKey("purchase_orders", "vendor_id", "vendors", "set null", FALSE),
    ForeignKey("purchase_order_items", "purchase_order_id", "purchase_orders",
               "cascade", TRUE),
    ForeignKey("purchase_order_items", "product_id", "products", "set null", FALSE) }

ColumnsOf(t) == { f.column : f \in { g \in ForeignKeys : g.table = t } }

Row(uid, refs) == [stored |-> TRUE, user_id |-> uid, refs |-> refs]

\* the rows a caller can send to table t: line-item tables have no user_id
RowsFor(t) ==
  { Row(u, refs) : u \in (IF t \in OwnedTables THEN Users ELSE {NoUser}),
                   refs \in SUBSET ColumnsOf(t) }

\* the column of a line-item table that names its header
ParentColumn(t) == IF t = "invoice_items" THEN "invoice_id" ELSE "purchase_order_id"

\* the policy of table t for caller uid on a row: USING and WITH CHECK are the
\* same expression (owned tables: auth.uid() = user_id; line items: EXISTS
\* the header with user_id = auth.uid())
RowPolicy(rw, uid, t, row) ==
  /\ uid # NoUser
  /\ IF t \in OwnedTables
     THEN row.user_id = uid
     ELSE /\ ParentColumn(t) \in row.refs
          /\ rw[ParentOf[t]].stored
          /\ rw[ParentOf[t]].user_id = uid

\* the user a stored row belongs to
OwnerOf(rw, t) ==
  IF ~rw[t].stored THEN NoUser
  ELSE IF t \in OwnedTables THEN rw[t].user_id
  ELSE IF rw[ParentOf[t]].stored THEN rw[ParentOf[t]].user_id
  ELSE NoUser

\* select('*') on table t: the tables whose row is returned
SelectRows(rw, uid) ==
  { t \in Tables : rw[t].stored /\ RowPolicy(rw, uid, t, rw[t]) }

\* NOT NULL and REFERENCES: checked against the referenced table itself,
\* whoever owns the row there
ForeignKeyError(rw, t, row) ==
  \E f \in ForeignKeys :
    /\ f.table = t
    /\ \/ f.required /\ f.column \notin row.refs
       \/ f.column \in row.refs /\ ~rw[f.references].stored

\* the foreign keys of stored rows that refer to the row of table t
Referencing(rw, t) ==
  { f \in ForeignKeys :
      f.references = t /\ rw[f.table].stored /\ f.column \in rw[f.table].refs }

\* ON DELETE of the row of table t: cascade removes the referencing row,
\* set null clears its column; the actions are the store's own
AfterDelete(rw, t) ==
  [x \in Tables |->
     IF x = t THEN NoRow
     ELSE IF \E f \in Referencing(rw, t) : f.table = x /\ f.on_delete = "cascade"
     THEN NoRow
     ELSE IF rw[x].stored
     THEN [rw[x] EXCEPT !.refs =
             @ \ { f.column : f \in { g \in Referencing(rw, t) :
                                        g.table = x /\ g.on_delete = "set null" } }]
     ELSE rw[x]]

\* insert of a row into table t by uid
ApiInsert(uid, t, row) ==
  /\ ~rows[t].stored
  /\ row \in RowsFor(t)
  /\ RowPolicy(rows, uid, t, row)
  /\ ~ForeignKeyError(rows, t, row)
  /\ rows' = [rows EXCEPT ![t] = row]
  /\ UNCHANGED <<calcVars, poVars, asyncVars, storeVars, pageVars, roleVars>>

\* update of the row of table t to row by uid
ApiUpdate(uid, t, row) ==
  /\ rows[t].stored
  /\ row \in RowsFor(t)
  /\ RowPolicy(rows, uid, t, rows[t])
  /\ RowPolicy(rows, uid, t, row)
  /\ ~ForeignKeyError(rows, t, row)
  /\ rows' = [rows EXCEPT ![t] = row]
  /\ UNCHANGED <<calcVars, poVars, asyncVars, storeVars, pageVars, roleVars>>

\* delete of the row of table t by uid
ApiDelete(uid, t) ==
  /\ rows[t].stored
  /\ RowPolicy(rows, uid, t, rows[t])
  /\ ~\E f \in Referencing(rows, t) : f.on_delete = "no action"
  /\ rows' = AfterDelete(rows, t)
  /\ UNCHANGED <<calcVars, poVars, asyncVars, storeVars, pageVars, roleVars>>

(***************************************************************************)
(* SpecRows: the users issue inserts, updates and deletes on every table.  *)
(***************************************************************************)
InitRows ==
  /\ CalcIdle
  /\ StoreIdle
  /\ PageIdle
  /\ RolesIdle
  /\ RowsIdle
  /\ OrdersIdle
  /\ AsyncIdle

NextRows ==
  \E uid \in Users, t \in Tables :
    \/ \E row \in RowsFor(t) : ApiInsert(uid, t, row)
    \/ \E row \in RowsFor(t) : ApiUpdate(uid, t, row)
    \/ ApiDelete(uid, t)

SpecRows == InitRows /\ [][NextRows]_vars

(***************************************************************************)
(* Reference calculator of the specification (section 4.1), evaluated in   *)
(* Number arithmetic in the order the formulas are written.                *)
(***************************************************************************)
RefBase(it)      == FMul(NumberOrZero(it.quantity), NumberOrZero(it.unit_price))
RefDiscount(it)  == FMul(RefBase(it), FDivSmall(NumberOrZero(it.discount_percentage), 100))
RefTax(it)       == FMul(FSub(RefBase(it), RefDiscount(it)),
                         FDivSmall(NumberOrZero(it.tax_percentage), 100))
RefLineTotal(it) == FAdd(FSub(RefBase(it), RefDiscount(it)), RefTax(it))

RECURSIVE RefSum(_, _, _)
RefSum(F(_), items, n) ==
  IF n = 0 THEN FZero ELSE FAdd(RefSum(F, items, n - 1), F(items[n]))

ScenarioA == <<Item("a", 2000, 50000, 10000, 5000)>>

\* C9: the header totals the save writes are the reference calculator's sums
\* of base, discount, tax and line_total, every item row carries its item's
\* line_total, and scenario A gives 100 / 10 / 4.5 / 94.5.
C9_TotalsMatchReference ==
  payload.built =>
    /\ payload.header.subtotal = RefSum(RefBase, line_items, Len(line_items))
    /\ payload.header.discount_amount = RefSum(RefDiscount, line_items, Len(line_items))
    /\ payload.header.tax_amount = RefSum(RefTax, line_items, Len(line_items))
    /\ payload.header.total_amount = RefSum(RefLineTotal, line_items, Len(line_items))
    /\ Len(payload.rows) = Len(line_items)
    /\ \A i \in 1..Len(line_items) :
         payload.rows[i].line_total = RefLineTotal(line_items[i])
    /\ (line_items = ScenarioA =>
          /\ payload.header.subtotal = Number(100000)
          /\ payload.header.discount_amount = Number(10000)
          /\ payload.header.tax_amount = Number(4500)
          /\ payload.header.total_amount = Number(94500)
          /\ payload.rows[1].line_total = Number(94500))

C9_Witness ==
  /\ payload.built
  /\ line_items = ScenarioA
  /\ payload.header.total_amount = Number(94500)

\* C10 as claimed: total_amount is exactly subtotal - discount_amount + tax_amount
C10_ExactIdentity ==
  payload.built =>
    payload.header.total_amount =
      FAdd(FSub(payload.header.subtotal, payload.header.discount_amount),
           payload.header.tax_amount)

\* C10 amended: total_amount equals subtotal - discount_amount + tax_amount
\* within monetary rounding tolerance (the two differ by less than half a cent).
C10_IdentityWithinTolerance ==
  payload.built =>
    ToDecimal2(FSub(payload.header.total_amount,
                    FAdd(FSub(payload.header.subtotal, payload.header.discount_amount),
                         payload.header.tax_amount))) = 0

\* a list of two items whose binary sums differ in the last place
C10_Witness ==
  /\ payload.built
  /\ Len(line_items) = 2
  /\ payload.header.total_amount #
       FAdd(FSub(payload.header.subtotal, payload.header.discount_amount),
            payload.header.tax_amount)


C28_PreviewIsSaved ==
  payload.built =>
    /\ payload.preview.subtotal = payload.header.subtotal
    /\ payload.preview.discountTotal = payload.header.discount_amount
    /\ payload.preview.taxTotal = payload.header.tax_amount
    /\ payload.preview.total = payload.header.total_amount

\* a list of two items with a discount, a tax and figures that are not whole
\* cents has been previewed and built
C28_Witness ==
  /\ payload.built
  /\ Len(line_items) = 2
  /\ \E i \in 1..2 : line_items[i].discount_percentage \notin {0, Undefined}
  /\ \E i \in 1..2 : line_items[i].tax_percentage = Undefined
  /\ ~FIsNeg(payload.preview.discountTotal) /\ payload.preview.discountTotal # FZero
  /\ payload.preview.total = payload.header.total_amount
(***************************************************************************)
(* Claims about the invoice save, delete and ownership                     *)
(***************************************************************************)
\* the columns of invoices a submitted form determines
SubmittedColumns ==
  {"user_id", "invoice_number", "customer_id", "status",
   "subtotal", "discount_amount", "tax_amount", "total_amount"}

SubmittedPart(header) == [f \in SubmittedColumns |-> header[f]]

\* two aggregates with the same submitted header columns and the same items
SameAggregate(a, b) ==
  /\ a.stored = b.stored
  /\ a.stored => /\ SubmittedPart(a.header) = SubmittedPart(b.header)
                 /\ a.items = b.items

\* the aggregate is the full replacement by the save with these values
IsReplacement(a, uid, id, v) ==
  /\ a.stored
  /\ SubmittedPart(a.header) = SubmittedPart(HeaderSent[uid, v])
  /\ a.items = BagOfRows(ItemsSent[id, v])

UpdatePcs == {"update", "delete_items", "insert_items"}

\* C1: when an update attempt of a client ends, at whichever store call, the
\* stored aggregate of the invoice is either the complete new one (new header
\* and exactly the new items) or the complete old one.
C1_UpdateAllOrNothing ==
  [][\A s \in Sessions :
       (run[s].pc \in UpdatePcs /\ run'[s].pc = "done") =>
         \/ IsReplacement(Aggregate(invoices', invoice_items', run[s].id),
                          run[s].user_id, run[s].id, run[s].values)
         \/ SameAggregate(Aggregate(invoices', invoice_items', run[s].id),
                          run[s].before)]_vars

\* both clients have completed an update of the same stored invoice
BothUpdated(s, t) ==
  /\ s # t
  /\ run[s].pc = "done" /\ toast[s] = "Invoice updated"
  /\ run[t].pc = "done" /\ toast[t] = "Invoice updated"
  /\ run[s].id = run[t].id
  /\ run[s].id \in DOMAIN invoices

\* C2: after two editors have both completed an update of the same invoice,
\* the stored aggregate is the full replacement of one of them (the last
\* writer): header and items are the ones the same writer submitted, with no
\* item of the other left over or duplicated.
C2_LastWriterWins ==
  \A s \in Sessions, t \in Sessions :
    BothUpdated(s, t) =>
      \E w \in {s, t} :
        IsReplacement(Aggregate(invoices, invoice_items, run[w].id),
                      user[w], run[w].id, run[w].values)

\* C3: every stored invoice has balance_due = total_amount - paid_amount.
C3_BalanceDue ==
  \A id \in DOMAIN invoices :
    invoices[id].balance_due = invoices[id].total_amount - invoices[id].paid_amount

\* C4: when an update completes successfully, the invoice_items rows of the
\* invoice are exactly the rows submitted, one per item, and no other.
C4_ItemsAreTheSubmittedSet ==
  [][\A s \in Sessions :
       (run[s].pc = "insert_items" /\ run'[s].pc = "done"
         /\ toast'[s] = "Invoice updated") =>
         ItemsOf(invoice_items', run[s].id) =
           BagOfRows(ItemsSent[run[s].id, run[s].values])]_vars

\* the client is signed in as a user who does not own the stored invoice
NotOwner(s, id) ==
  /\ user[s] \in Users
  /\ id \in DOMAIN invoices
  /\ invoices[id].user_id # user[s]

FailureTitles ==
  {"Update failed", "Items cleanup failed", "Saving items failed", "Delete failed"}

\* C5: a delete or an update of an invoice by a signed-in user who does not
\* own it ends with an error notification, and no step of it changes the
\* invoices row or the invoice_items rows of that invoice.
C5_NonOwnerRejected ==
  [][\A s \in Sessions, id \in InvoiceIds :
       NotOwner(s, id) =>
         /\ handleDelete(s, id) =>
              /\ toast'[s] \in FailureTitles
              /\ Aggregate(invoices', invoice_items', id) =
                   Aggregate(invoices, invoice_items, id)
         /\ (run[s].pc \in UpdatePcs /\ run[s].id = id /\ run'[s] # run[s]) =>
              /\ run'[s].pc = "done" => toast'[s] \in FailureTitles
              /\ Aggregate(invoices', invoice_items', id) =
                   Aggregate(invoices, invoice_items, id)]_vars

(***************************************************************************)
(* Claims about roles and row ownership                                    *)
(***************************************************************************)
\* C6: when a role change made by an admin has issued its insert, the target
\* user has exactly one user_roles row and it carries the new role, whoever
\* the target is and whether or not the insert was accepted.
C6_RoleChangeLeavesOneRole ==
  [][\A s \in Sessions :
       (roleRun[s].pc = "insert_role" /\ roleRun[s].asAdmin
         /\ roleRun'[s].pc # "insert_role") =>
         RolesOf(user_roles', roleRun[s].userId) = {roleRun[s].newRole}]_vars

\* client s issues a statement on user_roles
StatementBy(s) == DeleteRoles(s) \/ InsertRole(s) \/ RoleStatement(s)

\* C7: an insert or delete on user_roles by a caller for whom is_admin is
\* false changes no row, so it gives no user a role, and an update changes no
\* row whoever issues it.
C7_OnlyAdminsMutateRoles ==
  [][\A s \in Sessions :
       /\ (StatementBy(s) /\ ~is_admin(user_roles, user[s])) =>
            user_roles' = user_roles
       /\ (\E u \in Users, r \in Roles, r2 \in Roles :
             ApiUpdateRole(s, RoleRow(u, r), r2)) =>
            user_roles' = user_roles]_vars

\* a user who is not an admin tried to make itself admin and was refused
C7_Witness ==
  /\ reply = [by |-> "s2", op |-> "insert", error |-> TRUE]
  /\ ~is_admin(user_roles, user["s2"])
  /\ RolesOf(user_roles, user["s2"]) = {"user"}

\* user a issues a statement on some table
CallBy(a) ==
  \E t \in Tables :
    \/ \E row \in RowsFor(t) : ApiInsert(a, t, row)
    \/ \E row \in RowsFor(t) : ApiUpdate(a, t, row)
    \/ ApiDelete(a, t)

\* C8: a select returns only rows the caller owns, and a statement of user a
\* changes no row owned by another user and leaves no changed row with
\* another user's user_id.
C8_OwnerOnlyAccess ==
  /\ [](\A a \in Users : \A t \in SelectRows(rows, a) : OwnerOf(rows, t) = a)
  /\ [][\A a \in Users :
          CallBy(a) =>
            \A t \in Tables :
              /\ (rows[t].stored /\ OwnerOf(rows, t) # a) => rows'[t] = rows[t]
              /\ (rows'[t] # rows[t] /\ rows'[t].stored) => OwnerOf(rows', t) = a]_vars


\* the user_roles rows of user u
RoleRowsOf(table, u) == { r \in table : r.user_id = u }

\* C20: immediately after an account is created, user_roles holds exactly
\* one row for it and the role of that row is user.
C20_SignUpAssignsUserOnce ==
  [][\A u \in Users :
       (u \notin accounts /\ u \in accounts') =>
         /\ RoleRowsOf(user_roles', u) = {RoleRow(u, "user")}
         /\ Cardinality(RoleRowsOf(user_roles', u)) = 1]_vars

\* u2 has signed up and holds the one role the trigger gave it
C20_Witness ==
  /\ user["s2"] = "u2"
  /\ "u2" \in accounts
  /\ RoleRowsOf(user_roles, "u2") = {RoleRow("u2", "user")}

(***************************************************************************)
(* Claims on the save of the Invoices page and of the PurchaseOrders page, *)
(* checked under SpecSave.                                                 *)
(***************************************************************************)
\* the positions of a save at which a store call is issued or has been issued
SavePcs == {"update", "delete_items", "insert_items", "create", "create_items", "done"}

\* the submissions under way or last made on the two pages
Submissions == {r \in {run["s1"], orderPage.run} : r.pc \in SavePcs \cup {"invalid"}}

\* C12: a submission of an invoice or a purchase order with an empty
\* line-item list is rejected by validation (no save runs with an empty list)
\* and the step that rejects it leaves every table as it was.
C12_EmptyListRejected ==
  /\ [](\A r \in Submissions : r.values.line_items = << >> => r.pc = "invalid")
  /\ [][\A v \in SaveValues \cup RejectedValues :
          handleSubmit("s1", v) /\ v.line_items = << >> => UNCHANGED storeVars]_vars
  /\ [][\A v \in PO_SaveValues \cup PO_RejectedValues :
          PO_handleSubmit(v) /\ v.line_items = << >> =>
            UNCHANGED <<purchase_orders, purchase_order_items>>]_vars

\* an invoice form with no line items has been submitted and rejected
C12_Witness ==
  /\ run["s1"].pc = "invalid"
  /\ run["s1"].values.line_items = << >>
  /\ dialogOpen["s1"]

\* an item within the bounds of the claim, minQty being the least quantity in
\* 1/1000; a percentage left out counts as within
ItemWithin(it, minQty) ==
  /\ it.description # ""
  /\ it.quantity >= minQty
  /\ it.unit_price >= 0
  /\ \A f \in {"discount_percentage", "tax_percentage"} \cap DOMAIN it :
       it[f] = Undefined \/ (it[f] >= 0 /\ it[f] <= 100000)

\* the required header fields are there
HeaderPresent(v) ==
  IF "po_number" \in DOMAIN v THEN v.po_number # ""
  ELSE v.invoice_number # "" /\ v.customer_id # ""

\* the rules of the form that are not about an item's bounds hold: the
\* list is not empty and the status is one the form offers
OtherRules(v) ==
  /\ v.line_items # << >>
  /\ IF "po_number" \in DOMAIN v
     THEN v.status \in {"pending", "approved", "ordered", "received", "cancelled"}
     ELSE v.status \in {"draft", "sent", "paid", "overdue"}

\* a submission is accepted exactly when its items are within the bounds and
\* its header fields are there
AcceptedIffWithin(minQty) ==
  \A r \in Submissions :
    /\ r.pc # "invalid" =>
         /\ HeaderPresent(r.values)
         /\ \A i \in 1..Len(r.values.line_items) : ItemWithin(r.values.line_items[i], minQty)
    /\ (r.pc = "invalid" /\ HeaderPresent(r.values) /\ OtherRules(r.values)) =>
         \E i \in 1..Len(r.values.line_items) : ~ItemWithin(r.values.line_items[i], minQty)

\* the step that rejects a submission leaves every table as it was
RejectedBeforePersistence ==
  /\ [][\A v \in SaveValues \cup RejectedValues :
          handleSubmit("s1", v) => UNCHANGED storeVars]_vars
  /\ [][\A v \in PO_SaveValues \cup PO_RejectedValues :
          PO_handleSubmit(v) => UNCHANGED <<purchase_orders, purchase_order_items>>]_vars

ReadsBack(ev, v, id) ==
  /\ ev.invoice_number = v.invoice_number
  /\ ev.customer_id = v.customer_id
  /\ ev.status = v.status
  /\ BagOfRows(ev.line_items) = BagOfRows(v.line_items)
  /\ \A f \in MoneyColumns : HeaderSent["u1", ev][f] = invoices[id][f]

\* C14: after an invoice was saved successfully, startEdit yields form values
\* with the saved invoice number, customer and status and the saved multiset
\* of line items, and saving them again unchanged writes the same header
\* totals.
C14_RoundTrip ==
  [][\A id \in InvoiceIds :
       ( /\ run["s1"].pc = "done"
         /\ run["s1"].title \in {"Invoice created", "Invoice updated"}
         /\ run["s1"].id = id
         /\ startEdit("s1", id)
         /\ editingValues'["s1"] # NoValues )
       => ReadsBack(editingValues'["s1"], run["s1"].values, id)]_vars

\* C15: no status is rejected for invoices: a submission whose status is one
\* of draft, sent, paid, overdue, cancelled and that is in order otherwise
\* (header fields there, at least one item, every item within its bounds) is
\* accepted, whatever the status of the invoice edited.
C15_AnyStatusAccepted ==
  LET r == run["s1"] IN
    ( /\ r.pc = "invalid"
      /\ r.values.status \in {"draft", "sent", "paid", "overdue", "cancelled"}
      /\ HeaderPresent(r.values)
      /\ r.values.line_items # << >> )
    => \E i \in 1..Len(r.values.line_items) : ~ItemWithin(r.values.line_items[i], 1000)

\* the saves under way or last made on the two pages
Saves == {r \in {run["s1"], orderPage.run} : r.pc \in SavePcs}

\* the store calls of an update and of a create, in the order of the claim
CallOrders ==
  { <<"update invoices", "delete invoice_items", "insert invoice_items">>,
    <<"insert invoices", "insert invoice_items">>,
    <<"update purchase_orders", "delete purchase_order_items", "insert purchase_order_items">>,
    <<"insert purchase_orders", "insert purchase_order_items">> }

IsPrefix(p, q) == Len(p) <= Len(q) /\ \A i \in 1..Len(p) : p[i] = q[i]

\* the calls a save has made so far, by name
CallNames(r) == [i \in 1..Len(r.calls) |-> r.calls[i].call]

\* C16: within one save the store calls are made one after the other in the
\* order header write, delete of the old items (on update), insert of the new
\* items, each after the one before it has come back; if the header write
\* fails no delete or insert of line items is issued, and the line-item tables
\* change only at a save's delete or insert step, after its header write
\* succeeded.
C16_CallsInOrder ==
  /\ [](\A r \in Saves :
          /\ \E o \in CallOrders : IsPrefix(CallNames(r), o)
          /\ (Len(r.calls) >= 1 /\ r.calls[1].error) => Len(r.calls) = 1
          /\ r.pc \in {"update", "create"} => r.calls = << >>
          /\ r.pc \in {"delete_items", "create_items"} =>
               Len(r.calls) = 1 /\ ~r.calls[1].error
          /\ r.pc = "insert_items" => Len(r.calls) = 2 /\ ~r.calls[1].error)
  /\ [][(invoice_items' # invoice_items /\ run["s1"].pc \in SavePcs \ {"done"}) =>
          /\ run["s1"].pc \in {"delete_items", "insert_items", "create_items"}
          /\ ~run["s1"].calls[1].error]_vars
  /\ [][(purchase_order_items' # purchase_order_items
           /\ orderPage.run.pc \in SavePcs \ {"done"}) =>
          /\ orderPage.run.pc \in {"delete_items", "insert_items", "create_items"}
          /\ ~orderPage.run.calls[1].error]_vars

\* an update of an invoice has made its three calls and reported success
C16_Witness ==
  /\ run["s1"].pc = "done"
  /\ run["s1"].title = "Invoice updated"
  /\ CallNames(run["s1"]) =
       <<"update invoices", "delete invoice_items", "insert invoice_items">>

\* the notifications shown with variant 'destructive'
Destructive ==
  {"Update failed", "Items cleanup failed", "Saving items failed", "Create failed",
   "Delete failed", "Failed to load invoices", "Failed to load purchase orders",
   "Failed to load items", "Sign in required"}

\* C17: every failed store call of a save is the last call of that save and
\* the save ends with a destructive notification; no call is made after a
\* failed one; and a failed delete of an invoice or of a purchase order is
\* notified as 'Delete failed'.
C17_FailuresSurfaced ==
  /\ [](\A r \in Saves :
          \A i \in 1..Len(r.calls) :
            r.calls[i].error =>
              /\ i = Len(r.calls)
              /\ r.pc = "done"
              /\ r.title \in Destructive)
  /\ [][\A id \in InvoiceIds :
          (handleDelete("s1", id) /\ UNCHANGED invoices /\ id \in DOMAIN invoices
             /\ InvoicePolicy(user["s1"], invoices[id]))
          => toast'["s1"] = "Delete failed"]_vars
  /\ [][\A id \in OrderIds :
          (PO_handleDelete(id) /\ UNCHANGED purchase_orders /\ id \in DOMAIN purchase_orders
             /\ InvoicePolicy(user["s1"], purchase_orders[id]))
          => orderPage'.toast = "Delete failed"]_vars

\* C18: when a purchase-order update has reported 'Purchase order updated',
\* the purchase_order_items stored for the order are exactly the rows of the
\* submitted items, one row per item and no earlier row beside them.
C18_ItemsReplaced ==
  LET r == orderPage.run IN
    (r.pc = "done" /\ r.title = "Purchase order updated") =>
      PO_ItemsOf(purchase_order_items, r.id) = BagOfRows(PO_ItemsSent[r.id, r.values])


\* no handler of a page stands between two store calls
Quiescent ==
  /\ run["s1"].pc \in {"idle", "done", "invalid"}
  /\ orderPage.run.pc \in {"idle", "done", "invalid"}

\* C23: whenever no save is in flight, also after a save that ended at a
\* failed store call, every stored invoice and every stored purchase order
\* has at least one line item.
C23_AtLeastOneItem ==
  Quiescent =>
    /\ \A id \in DOMAIN invoices : ItemsOf(invoice_items, id) # EmptyBag
    /\ \A id \in DOMAIN purchase_orders :
         PO_ItemsOf(purchase_order_items, id) # EmptyBag

\* the sum of column f over the rows of a bag, each row counted as often as
\* it is stored
RECURSIVE SumOfBag(_, _)
SumOfBag(b, f) ==
  IF DOMAIN b = {} THEN 0
  ELSE LET r == CHOOSE x \in DOMAIN b : TRUE
       IN  r[f] * b[r] + SumOfBag([x \in DOMAIN b \ {r} |-> b[x]], f)

\* a stored item row as the form item it was made of: DECIMAL(p,2) columns
\* hold hundredths, form items thousandths
AsFormItem(row) ==
  Item(row.description, row.quantity * 10, row.unit_price * 10,
       row.discount_percentage * 10, row.tax_percentage * 10)

\* the totals recomputed from stored rows in the order of list l, as the
\* invoices table would store them
Recomputed(l) ==
  StoredColumns(ComputeTotals([k \in 1..Len(l) |-> AsFormItem(l[k])]),
                {"subtotal", "discount_amount", "tax_amount", "total_amount"})

\* C24: when a create or an update of an invoice completes successfully, the
\* stored header agrees with the stored items: total_amount is the sum of
\* their line_total, and subtotal, discount_amount and tax_amount are the
\* sums recomputed from their quantity, unit_price, discount_percentage and
\* tax_percentage.
C24_HeaderMatchesItems ==
  LET r == run["s1"] IN
    (r.pc = "done" /\ r.title \in {"Invoice created", "Invoice updated"}
      /\ r.id \in DOMAIN invoices) =>
      LET items == ItemsOf(invoice_items, r.id)
          h     == invoices[r.id]
      IN  /\ h.total_amount = SumOfBag(items, "line_total")
          /\ \A l \in RowOrders(SelectItems(invoice_items, invoices, user["s1"], r.id)) :
               /\ h.subtotal = Recomputed(l).subtotal
               /\ h.discount_amount = Recomputed(l).discount_amount
               /\ h.tax_amount = Recomputed(l).tax_amount
(***************************************************************************)
(* Claims on the purchase-order totals, checked under SpecOrderCalc.       *)
(***************************************************************************)
\* the figures of the invoice line-item calculator for a purchase-order
\* item, its discount being 0
WithDiscountZero(it) ==
  LineCalc(Item(it.description, it.quantity, it.unit_price, 0, it.tax_percentage))

\* the sum of the first n rows' line_total
RECURSIVE SumLineTotals(_, _)
SumLineTotals(sent, n) ==
  IF n = 0 THEN FZero ELSE FAdd(SumLineTotals(sent, n - 1), sent[n].line_total)

\* the saved totals are the sums of the items' quantity*unit_price and
\* quantity*unit_price*tax_percentage/100, total_amount is their sum, each
\* row's line_total is quantity*unit_price*(1 + tax_percentage/100), and the
\* preview of POLineItemsEditor shows the same three figures
TotalsAsWritten ==
  /\ payload.header.subtotal = RefSum(RefBase, line_items, Len(line_items))
  /\ payload.header.tax_amount = PO_Reduce(line_items, "tax", Len(line_items))
  /\ payload.header.total_amount =
       FAdd(payload.header.subtotal, payload.header.tax_amount)
  /\ Len(payload.rows) = Len(line_items)
  /\ \A i \in 1..Len(line_items) :
       /\ payload.rows[i].line_total =
            FMul(RefBase(line_items[i]),
                 FAdd(FFromInt(1), FDivSmall(NumberOrZero(line_items[i].tax_percentage), 100)))
       /\ PO_LineCalc(line_items[i]).tax =
            FDivSmall(FMul(RefBase(line_items[i]),
                           NumberOrZero(line_items[i].tax_percentage)), 100)
  /\ payload.preview.subtotal = payload.header.subtotal
  /\ payload.preview.taxTotal = payload.header.tax_amount
  /\ payload.preview.total = payload.header.total_amount

\* C19 as claimed: the saved totals are those of the line-item calculator
\* with discount 0, item by item, the sum of the rows' line_total equals
\* total_amount, and the preview shows the same values.
C19_ExactTotals ==
  payload.built =>
    /\ TotalsAsWritten
    /\ \A i \in 1..Len(line_items) :
         /\ PO_LineCalc(line_items[i]).base = WithDiscountZero(line_items[i]).base
         /\ PO_LineCalc(line_items[i]).tax = WithDiscountZero(line_items[i]).tax
         /\ payload.rows[i].line_total = WithDiscountZero(line_items[i]).lineTotal
    /\ SumLineTotals(payload.rows, Len(payload.rows)) = payload.header.total_amount

\* two Numbers differ by less than half a cent
WithinTolerance(x, y) == ToDecimal2(FSub(x, y)) = 0

\* C19 amended: the saved totals are the sums as the handler writes them and
\* the preview shows the same values; they agree with the line-item
\* calculator with discount 0, and the sum of the rows' line_total agrees with
\* total_amount, within monetary rounding tolerance.
C19_TotalsWithinTolerance ==
  payload.built =>
    /\ TotalsAsWritten
    /\ \A i \in 1..Len(line_items) :
         /\ PO_LineCalc(line_items[i]).base = WithDiscountZero(line_items[i]).base
         /\ WithinTolerance(PO_LineCalc(line_items[i]).tax, WithDiscountZero(line_items[i]).tax)
         /\ WithinTolerance(payload.rows[i].line_total,
                            WithDiscountZero(line_items[i]).lineTotal)
    /\ WithinTolerance(SumLineTotals(payload.rows, Len(payload.rows)),
                       payload.header.total_amount)

\* a saved list whose rows' line_total do not add up to total_amount exactly
\* and whose tax differs from the calculator's in the last bits, previewed
\* with the saved figures
C19_Witness ==
  /\ payload.built
  /\ "preview" \in DOMAIN payload
  /\ SumLineTotals(payload.rows, Len(payload.rows)) # payload.header.total_amount
  /\ \E i \in 1..Len(line_items) :
       PO_LineCalc(line_items[i]).tax # WithDiscountZero(line_items[i]).tax
  /\ payload.preview.total = payload.header.total_amount

(***************************************************************************)
(* Claim on received_quantity, checked under SpecReceipt.                  *)
(***************************************************************************)
\* the rows a step adds to purchase_order_items
RowsWritten == BagToSet(purchase_order_items' (-) purchase_order_items)

\* an insert of item rows by the page
ItemsInsert == PO_InsertItems \/ PO_InsertCreatedItems

\* C29: every purchase_order_items row the page writes, on a create and on
\* an update alike, has received_quantity 0, which lies within 0 and its
\* quantity, and carries the product_id of its form item.
C29_ReceivedQuantityZero ==
  [][ItemsInsert =>
      \A r \in RowsWritten :
        /\ r.received_quantity = FZero
        /\ ~FIsNeg(r.quantity)
        /\ \E i \in 1..Len(orderPage.run.values.line_items) :
             /\ r.product_id = ProductOf(orderPage.run.values.line_items[i])
             /\ r.description = orderPage.run.values.line_items[i].description]_vars

\* C29 witness: an update has ended with success and has written an item of
\* a product with received_quantity 0
C29_Witness ==
  /\ orderPage.run.pc = "done"
  /\ orderPage.run.title = "Purchase order updated"
  /\ \E r \in BagToSet(PO_ItemsOf(purchase_order_items, orderPage.run.id)) :
       /\ r.received_quantity = FZero
       /\ r.product_id = Some("p1")

(***************************************************************************)
(* Claims on the useUserRoles hook, checked under SpecHook.                *)
(***************************************************************************)
\* C21: has_role(u, r) is true exactly when user_roles holds the pair (u, r),
\* is_admin(u) equals has_role(u, admin) in every role table, and the isAdmin
\* and isAccountant flags of the hook are the membership tests of admin and
\* accountant on the role list it fetched.
C21_RoleFunctions ==
  /\ \A u \in Users \cup {NoUser} : \A r \in Roles :
       has_role(user_roles, u, r) <=>
         (\E x \in user_roles : x.user_id = u /\ x.role = r)
  /\ \A u \in Users \cup {NoUser} :
       is_admin(user_roles, u) = has_role(user_roles, u, "admin")
  /\ hook.isAdmin = ("admin" \in hook.roles)
  /\ hook.isAccountant = ("accountant" \in hook.roles)

\* the hook has fetched the roles of an admin who is no accountant
C21_Witness ==
  /\ user["s1"] # NoUser
  /\ hook.fetches = EmptyBag
  /\ hook.roles = RolesOf(user_roles, user["s1"])
  /\ has_role(user_roles, user["s1"], "admin")
  /\ ~has_role(user_roles, user["s1"], "accountant")
  /\ hook.isAdmin
  /\ ~hook.isAccountant

\* C26: once no fetch is outstanding the hook reports nothing when there is
\* no user, and otherwise only roles the current user holds; isAdmin and
\* isAccountant are not true for a user who lacks the role, whatever the
\* order in which the fetches resolved and whether they failed.
C26_OnlyCurrentUsersRoles ==
  hook.fetches = EmptyBag =>
    IF user["s1"] = NoUser
    THEN hook.roles = {} /\ ~hook.isAdmin /\ ~hook.isAccountant
    ELSE /\ hook.roles \subseteq RolesOf(user_roles, user["s1"])
         /\ hook.isAdmin => has_role(user_roles, user["s1"], "admin")
         /\ hook.isAccountant => has_role(user_roles, user["s1"], "accountant")

(***************************************************************************)
(* Claim on the dialog state of the Invoices page, checked under           *)
(* SpecDialog.                                                             *)
(***************************************************************************)
\* C27: the dialog is closed, creating or editing an invoice: editing is null
\* exactly when editingValues is undefined, and whenever the dialog is closed
\* editing is null, whenever the startEdit responses arrive.
C27_DialogStates ==
  /\ (editing["s1"] = NoInvoice) <=> (editingValues["s1"] = NoValues)
  /\ ~dialogOpen["s1"] => editing["s1"] = NoInvoice

(***************************************************************************)
(* Claims on the recurrence columns and the frame of an invoice update,    *)
(* checked under SpecFrame.                                                *)
(***************************************************************************)
\* C22: every stored invoice with is_recurring = true has a
\* recurrence_frequency out of weekly, monthly, quarterly, yearly, a
\* recurrence_start_date, and a next_recurrence_date not before it.
C22_RecurrenceContract ==
  \A id \in DOMAIN invoices :
    invoices[id].is_recurring =>
      /\ invoices[id].recurrence_frequency \in {Some(f) : f \in Frequencies}
      /\ invoices[id].recurrence_start_date # Null
      /\ invoices[id].next_recurrence_date # Null
      /\ \A a \in invoices[id].recurrence_start_date :
           \A b \in invoices[id].next_recurrence_date : b >= a

\* the header columns the form writes
WrittenColumns ==
  {"invoice_number", "customer_id", "invoice_date", "due_date", "status",
   "subtotal", "discount_amount", "tax_amount", "total_amount", "balance_due"}

\* a store call of an update of client s1
UpdateCall == UpdateHeader("s1") \/ DeleteItems("s1") \/ InsertItems("s1")

StoredData == <<invoices, invoice_items, issued,
                purchase_orders, purchase_order_items, orderIssued>>

\* a step that submits the Invoices form of client s
SaveBy(s) == \E v \in SignedOutValues : handleCreateOrUpdate(s, v)

\* a step that submits the PurchaseOrders form
PO_Save == \E v \in PO_SignedOutValues : PO_handleCreateOrUpdate(v)

\* C30: a save on the Invoices page or on the PurchaseOrders page while no
\* user is signed in shows 'Sign in required', starts no store call and
\* leaves the stored data, the dialog and the editing state as they were.
C30_SignInRequired ==
  /\ [][(user["s2"] = NoUser /\ SaveBy("s2")) =>
          /\ toast'["s2"] = "Sign in required"
          /\ run'["s2"] = Idle
          /\ UNCHANGED <<StoredData, dialogOpen, editing, editingValues>>]_vars
  /\ [][(user["s1"] = NoUser /\ PO_Save) =>
          /\ orderPage'.toast = "Sign in required"
          /\ orderPage'.run = Idle
          /\ orderPage'.dialogOpen = orderPage.dialogOpen
          /\ orderPage'.editing = orderPage.editing
          /\ orderPage'.editingValues = orderPage.editingValues
          /\ UNCHANGED StoredData]_vars

\* C30 witness: both clients have lost their session, each has submitted a
\* form over stored rows and has been told to sign in; the PurchaseOrders
\* dialog is still editing its order
C30_Witness ==
  /\ user["s1"] = NoUser
  /\ user["s2"] = NoUser
  /\ toast["s2"] = "Sign in required"
  /\ dialogOpen["s2"]
  /\ run["s2"] = Idle
  /\ orderPage.toast = "Sign in required"
  /\ orderPage.dialogOpen
  /\ orderPage.editing # NoInvoice
  /\ orderPage.run = Idle
  /\ invoices # EmptyTable
  /\ purchase_orders # EmptyTable

====
